---- MODULE Spec2Model ----
(***************************************************************************)
(* Time-windowed state derivation and caching core of the ManageIt         *)
(* cafeteria application: TimeUtils (meal period, week parity), TTLCache,  *)
(* and MenuService (override-then-default menu resolution with lookahead). *)
(*                                                                         *)
(* Dates are day numbers counted from the epoch date 2025-07-27 (a Sunday);*)
(* times of day are minutes since midnight; the cache clock is an integer  *)
(* number of ticks.  Python's None is the string "None" where the value is *)
(* a string, the empty sequence <<>> where the value is a number or a date *)
(* (an optional argument is <<>> or <<x>>), and the record PyNone where    *)
(* the value is an object held by a cache (cached objects are records).    *)
(***************************************************************************)
EXTENDS Integers, Sequences, FiniteSets, TLC

VARIABLES
    minuteOfDay,     \* TimeUtils.get_fixed_time(): hour * 60 + minute
    timeCall,        \* the last TimeUtils call: its operation, argument, result
    store,           \* TTLCache._store of one instance: key -> (value, timestamp)
    now,             \* time.time() as seen by that instance
    lastOp,          \* the last TTLCache operation, with the store it found
    prevOp,          \* the TTLCache operation before the last one
    today,           \* TimeUtils.get_fixed_time().date(), as a day number
    temporary_menu,  \* table temporary_menu: the override rows
    menu,            \* table menu: the recurring default rows
    fetch,           \* the last MenuService._fetch_menu_from_db call
    non_veg_menu,    \* non_veg_menu_items joined with non_veg_menu_main
    menu_cache,      \* cache_manager.menu_cache._store
    non_veg_cache,   \* cache_manager.non_veg_cache._store
    payment_cache,   \* cache_manager.payment_cache._store
    svc,             \* the last MenuService call made by a request
    lock,            \* TTLCache._lock of the instance request threads share
    thread,          \* each request thread: its request and where it stands
    notifications,   \* table notifications
    rating_cache,    \* cache_manager.rating_cache._store
    feedback_cache,  \* cache_manager.feedback_cache._store
    waste_cache,     \* cache_manager.waste_cache._store
    notification_cache,    \* cache_manager.notification_cache._store
    feature_toggle_cache,  \* cache_manager.feature_toggle_cache._store
    poll_cache,      \* cache_manager.poll_cache._store
    mgr,             \* the last call made on a cache of cache_manager
    jobs,            \* the scheduler: each job's running instances, last skip
    alertJob,        \* the locals of the running generate_high_low_alerts
    high_low_alerts_cache,  \* scheduler.high_low_alerts_cache
    waste_summary,   \* table waste_summary
    feedback,        \* feedback_details joined with feedback_summary
    cleanup_log,     \* the last committed runs of cleanup_old_menu, latest first
    digest           \* the last call that gathers or writes the critical-feedback digest

vars == <<minuteOfDay, timeCall, store, now, lastOp, prevOp,
          today, temporary_menu, menu, fetch,
          non_veg_menu, menu_cache, non_veg_cache, payment_cache, svc,
          lock, thread, notifications,
          rating_cache, feedback_cache, waste_cache, notification_cache,
          feature_toggle_cache, poll_cache, mgr,
          jobs, alertJob, high_low_alerts_cache, waste_summary, feedback,
          cleanup_log, digest>>

timeVars == <<minuteOfDay, timeCall>>
cacheVars == <<store, now, lastOp, prevOp>>
menuVars == <<today, temporary_menu, menu, fetch>>
serviceVars == <<non_veg_menu, menu_cache, non_veg_cache, payment_cache, svc>>
threadVars == <<lock, thread, notifications>>
managerVars == <<rating_cache, feedback_cache, waste_cache, notification_cache,
                 feature_toggle_cache, poll_cache, mgr>>
schedVars == <<jobs, alertJob, high_low_alerts_cache, waste_summary, feedback,
               cleanup_log, digest>>

None == "None"
PyNone == [none |-> TRUE]

(***************************************************************************)
(* TimeUtils                                                               *)
(***************************************************************************)
MinutesPerDay == 1440

MEALS == {"Breakfast", "Lunch", "Snacks", "Dinner"}

\* The mutant of get_current_meal: the Snacks window closed at the left of
\* 18:30 instead of at its right, Dinner opening at 18:30.
get_current_meal_snacks_exclusive(hour, clock) ==
    LET total_time == IF hour = <<>> THEN clock ELSE hour[1] * 60
    IN  IF 0 <= total_time /\ total_time < 11 * 60 THEN "Breakfast"
        ELSE IF 11 * 60 <= total_time /\ total_time < 16 * 60 THEN "Lunch"
        ELSE IF 16 * 60 <= total_time /\ total_time < 18 * 60 + 30 THEN "Snacks"
        ELSE IF 18 * 60 + 30 <= total_time /\ total_time <= 23 * 60 + 59 THEN "Dinner"
        ELSE None

\* The mutant of get_current_meal: the Snacks window closed at the left of
\* 18:30 and Dinner still opening after it, so that 18:30 falls in no
\* window.
get_current_meal_gap(hour, clock) ==
    LET total_time == IF hour = <<>> THEN clock ELSE hour[1] * 60
    IN  IF 0 <= total_time /\ total_time < 11 * 60 THEN "Breakfast"
        ELSE IF 11 * 60 <= total_time /\ total_time < 16 * 60 THEN "Lunch"
        ELSE IF 16 * 60 <= total_time /\ total_time < 18 * 60 + 30 THEN "Snacks"
        ELSE IF 18 * 60 + 30 < total_time /\ total_time <= 23 * 60 + 59 THEN "Dinner"
        ELSE None

\* TimeUtils.get_current_meal(hour=None); clock is the wall clock's
\* hour * 60 + minute, read when hour is omitted.
get_current_meal(hour, clock) ==
    LET total_time == IF hour = <<>> THEN clock ELSE hour[1] * 60
    IN  IF 0 <= total_time /\ total_time < 11 * 60 THEN "Breakfast"
        ELSE IF 11 * 60 <= total_time /\ total_time < 16 * 60 THEN "Lunch"
        ELSE IF 16 * 60 <= total_time /\ total_time <= 18 * 60 + 30 THEN "Snacks"
        ELSE IF 18 * 60 + 30 < total_time /\ total_time <= 23 * 60 + 59 THEN "Dinner"
        ELSE None

\* The mutant of is_odd_week: the quotient truncated toward zero, as C's
\* integer division does, instead of floored.
is_odd_week_truncating(date) ==
    LET q == IF date >= 0 THEN date \div 7 ELSE 0 - ((0 - date) \div 7)
    IN  q % 2 = 0

\* The mutant of is_odd_week: the parity changing every 14 days.
is_odd_week_fortnightly(date) == (date \div 14) % 2 = 0

\* TimeUtils.is_odd_week(date): date is the day number from the epoch, so
\* (date - start_date).days is date itself; // floors, as \div does.
is_odd_week(date) == (date \div 7) % 2 = 0

\* The meal boundaries of seconds_until_next_meal, in minutes.
boundaries == <<0, 11 * 60, 16 * 60, 18 * 60 + 30, 24 * 60>>

\* The mutant of seconds_until_next_meal: a boundary equal to the current
\* minute counts as the next one.
seconds_until_next_meal_inclusive(clock) ==
    LET total_minutes == clock
        later == {i \in 1..Len(boundaries) : boundaries[i] >= total_minutes}
    IN  IF later # {}
        THEN (boundaries[CHOOSE i \in later : \A j \in later : i <= j]
              - total_minutes) * 60
        ELSE 3600

\* TimeUtils.seconds_until_next_meal(): the first boundary after the wall
\* clock's hour * 60 + minute, in seconds from it; 3600 when there is none.
seconds_until_next_meal(clock) ==
    LET total_minutes == clock
        later == {i \in 1..Len(boundaries) : boundaries[i] > total_minutes}
    IN  IF later # {}
        THEN (boundaries[CHOOSE i \in later : \A j \in later : i <= j]
              - total_minutes) * 60
        ELSE 3600

NoTimeCall == [op |-> "none", hour |-> <<>>, ret |-> None,
               date |-> <<>>, odd |-> FALSE, seconds |-> 0]

\* A request reads the active meal from the wall clock.
CallGetCurrentMeal ==
    /\ timeCall' = [NoTimeCall EXCEPT !.op = "get_current_meal",
                                      !.ret = get_current_meal(<<>>, minuteOfDay)]
    /\ UNCHANGED <<threadVars, managerVars, schedVars,
                   minuteOfDay, cacheVars, menuVars, serviceVars>>

\* A caller passes an explicit hour.
CallGetCurrentMealAt ==
    \E h \in 0..23 :
        /\ timeCall' = [NoTimeCall EXCEPT !.op = "get_current_meal",
                                          !.hour = <<h>>,
                                          !.ret = get_current_meal(<<h>>, minuteOfDay)]
        /\ UNCHANGED <<threadVars, managerVars, schedVars,
                       minuteOfDay, cacheVars, menuVars, serviceVars>>

\* A caller asks how long the current meal period still lasts.
CallSecondsUntilNextMeal ==
    /\ timeCall' = [NoTimeCall EXCEPT !.op = "seconds_until_next_meal",
                                      !.seconds = seconds_until_next_meal(minuteOfDay)]
    /\ UNCHANGED <<threadVars, managerVars, schedVars,
                   minuteOfDay, cacheVars, menuVars, serviceVars>>

\* The dates is_odd_week is asked about: MaxWeeks weeks to either side of
\* the epoch date.
MaxWeeks == 3
WeekDates == (0 - 7 * MaxWeeks)..(7 * MaxWeeks)

\* A caller asks for the week parity of a date, or of today.
CallIsOddWeek ==
    \E date \in {<<>>} \cup {<<d>> : d \in WeekDates} :
        LET d0 == IF date = <<>> THEN today ELSE date[1]
        IN  /\ timeCall' = [NoTimeCall EXCEPT !.op = "is_odd_week",
                                              !.date = date,
                                              !.odd = is_odd_week(d0)]
            /\ UNCHANGED <<threadVars, managerVars, schedVars,
                           minuteOfDay, cacheVars, menuVars, serviceVars>>

(***************************************************************************)
(* TTLCache                                                                *)
(***************************************************************************)
MaxTime == 2
MaxTtl == 2

Keys == {"k1", "k2"}
Values == {[v |-> "v1"], [v |-> "v2"], PyNone}

EmptyStore == [k \in {} |-> [value |-> PyNone, timestamp |-> 0]]

\* dict.pop(key, None)
Pop(s, key) == [k \in DOMAIN s \ {key} |-> s[k]]

\* The mutant of TTLCache.get: expiry tested with <= (an entry aged exactly
\* ttl is still served).
TTLCache_get_inclusive(s, key, ttl, t) ==
    LET entry == IF key \in DOMAIN s THEN s[key]
                 ELSE [value |-> PyNone, timestamp |-> 0]
    IN  IF t - entry.timestamp <= ttl
        THEN [ret |-> entry.value, store |-> s]
        ELSE [ret |-> PyNone, store |-> Pop(s, key)]

\* The mutant of TTLCache.get: a hit restamps the entry (sliding expiry).
TTLCache_get_touch(s, key, ttl, t) ==
    LET entry == IF key \in DOMAIN s THEN s[key]
                 ELSE [value |-> PyNone, timestamp |-> 0]
    IN  IF t - entry.timestamp < ttl
        THEN [ret |-> entry.value,
              store |-> IF key \in DOMAIN s
                        THEN [s EXCEPT ![key].timestamp = t] ELSE s]
        ELSE [ret |-> PyNone, store |-> Pop(s, key)]

\* TTLCache.get(key, ttl) at time t: the value returned and the store left.
TTLCache_get(s, key, ttl, t) ==
    LET entry == IF key \in DOMAIN s THEN s[key]
                 ELSE [value |-> PyNone, timestamp |-> 0]
    IN  IF t - entry.timestamp < ttl
        THEN [ret |-> entry.value, store |-> s]
        ELSE [ret |-> PyNone, store |-> Pop(s, key)]

\* The mutant of TTLCache.set: an existing entry keeps its timestamp.
TTLCache_set_keep_stamp(s, key, value, t) ==
    [k \in DOMAIN s \cup {key} |->
        IF k = key
        THEN [value |-> value,
              timestamp |-> IF key \in DOMAIN s THEN s[key].timestamp ELSE t]
        ELSE s[k]]

\* TTLCache.set(key, value) at time t.
TTLCache_set(s, key, value, t) ==
    [k \in DOMAIN s \cup {key} |->
        IF k = key THEN [value |-> value, timestamp |-> t] ELSE s[k]]

\* TTLCache.clear(key=None): a falsy key (None or "") clears the whole store.
TTLCache_clear(s, key) ==
    IF key # None /\ key # "" THEN Pop(s, key) ELSE EmptyStore

\* The mutant of TTLCache.cleanup_expired: an entry aged exactly ttl is
\* kept.
TTLCache_cleanup_expired_strict(s, ttl, t) ==
    LET expired_keys == {k \in DOMAIN s : t - s[k].timestamp > ttl}
    IN  [k \in DOMAIN s \ expired_keys |-> s[k]]

\* TTLCache.cleanup_expired(ttl) with current_time = t.
TTLCache_cleanup_expired(s, ttl, t) ==
    LET expired_keys == {k \in DOMAIN s : t - s[k].timestamp >= ttl}
    IN  [k \in DOMAIN s \ expired_keys |-> s[k]]

NoOp == [op |-> "none", key |-> None, value |-> PyNone, ttl |-> 0, at |-> 0,
         ret |-> PyNone, before |-> EmptyStore]

Op(name, key, value, ttl, ret) ==
    [op |-> name, key |-> key, value |-> value, ttl |-> ttl, at |-> now,
     ret |-> ret, before |-> store]

Get ==
    \E key \in Keys, ttl \in 0..MaxTtl :
        LET r == TTLCache_get(store, key, ttl, now)
        IN  /\ store' = r.store
            /\ lastOp' = Op("get", key, PyNone, ttl, r.ret)
            /\ prevOp' = lastOp
            /\ UNCHANGED <<threadVars, managerVars, schedVars,
                           now, timeVars, menuVars, serviceVars>>

Set ==
    \E key \in Keys, value \in Values :
        /\ store' = TTLCache_set(store, key, value, now)
        /\ lastOp' = Op("set", key, value, 0, PyNone)
        /\ prevOp' = lastOp
        /\ UNCHANGED <<threadVars, managerVars, schedVars,
                       now, timeVars, menuVars, serviceVars>>

Clear ==
    \E key \in Keys \cup {None, ""} :
        /\ store' = TTLCache_clear(store, key)
        /\ lastOp' = Op("clear", key, PyNone, 0, PyNone)
        /\ prevOp' = lastOp
        /\ UNCHANGED <<threadVars, managerVars, schedVars,
                       now, timeVars, menuVars, serviceVars>>

CleanupExpired ==
    \E ttl \in 0..MaxTtl :
        /\ store' = TTLCache_cleanup_expired(store, ttl, now)
        /\ lastOp' = Op("cleanup_expired", None, PyNone, ttl, PyNone)
        /\ prevOp' = lastOp
        /\ UNCHANGED <<threadVars, managerVars, schedVars,
                       now, timeVars, menuVars, serviceVars>>

\* The clock moves between operations.
Advance ==
    /\ now < MaxTime
    /\ now' = now + 1
    /\ UNCHANGED <<threadVars, managerVars, schedVars,
                   store, lastOp, prevOp, timeVars, menuVars, serviceVars>>

(***************************************************************************)
(* MenuService._fetch_menu_from_db over the tables temporary_menu and menu *)
(***************************************************************************)
MaxDay == 7
MaxStoreCalls == 8

\* One wall-clock minute inside each meal period.
ClockPoints == {0, 11 * 60, 16 * 60, 18 * 60 + 31}

\* The items an admin types into the override form.
Items == {"A", "B"}

\* date.strftime('%A'); day 0 is 2025-07-27, a Sunday.
DAYS == <<"Sunday", "Monday", "Tuesday", "Wednesday", "Thursday", "Friday",
          "Saturday">>
DayName(d) == DAYS[(d % 7) + 1]

\* The modelled days start on the last day of the epoch week, Saturday
\* 2025-08-02, the eve of a change of week parity.
FirstDay == Len(DAYS) - 1

WeekType(d) == IF is_odd_week(d) THEN "Odd" ELSE "Even"

MEAL_ORDER == <<"Breakfast", "Lunch", "Snacks", "Dinner">>

\* MEAL_ORDER.index(current_meal)
MealIndex(meal) == CHOOSE i \in 1..Len(MEAL_ORDER) : MEAL_ORDER[i] = meal

\* The mutant of _get_meals_to_fetch: Dinner treated like the other meals
\* (no Breakfast of tomorrow).
get_meals_to_fetch_no_tomorrow(current_meal, date) ==
    LET idx == MealIndex(current_meal)
    IN  [i \in 1..(Len(MEAL_ORDER) - idx + 1) |-> <<MEAL_ORDER[idx + i - 1], date>>]

\* MenuService._get_meals_to_fetch(current_meal, date): [(meal, date), ...]
get_meals_to_fetch(current_meal, date) ==
    LET idx == MealIndex(current_meal)
    IN  IF current_meal = "Dinner"
        THEN LET tomorrow == date + 1
             IN  <<(<<MEAL_ORDER[idx], date>>), (<<"Breakfast", tomorrow>>)>>
        ELSE [i \in 1..(Len(MEAL_ORDER) - idx + 1) |-> <<MEAL_ORDER[idx + i - 1], date>>]

\* SELECT DISTINCT food_item FROM <table> WHERE week_type = %s AND day = %s
\* AND meal = %s: the distinct items, in no particular order.
Select(table, week_type, day, meal) ==
    {r.food_item : r \in {x \in table : /\ x.week_type = week_type
                                        /\ x.day = day
                                        /\ x.meal = meal}}

EmptyMenus == [m \in {} |-> {}]

\* (None, {}, None)
EmptyResult == [meal |-> None, menus |-> EmptyMenus, top |-> None]

\* The mutant of VegItems: the permanent menu consulted first, the
\* temporary menu only when the permanent one is empty.
VegItems_default_first(active, temp_menu, permanent) ==
    IF active
    THEN IF permanent # {} THEN permanent ELSE temp_menu
    ELSE permanent

\* veg_items of one (meal, date) pair: the temporary menu for the requested
\* meal when it has rows, the permanent menu otherwise and for other meals.
VegItems(active, temp_menu, permanent) ==
    IF active
    THEN IF temp_menu # {} THEN temp_menu ELSE permanent
    ELSE permanent

\* The mutant of OnException: the handler returns what the loop had
\* resolved before the failure.
OnException_keep_resolved(meal, resolved) ==
    [meal |-> meal, menus |-> resolved, top |-> None]

\* except Exception: log and return (None, {}, None)
OnException(meal, resolved) == EmptyResult

Query(table, week_type, day, m, d) ==
    [kind |-> "query", table |-> table, week_type |-> week_type, day |-> day,
     meal |-> m, date |-> d, items |-> {}]

Assign(m, d, items) ==
    [kind |-> "assign", table |-> None, week_type |-> None, day |-> None,
     meal |-> m, date |-> d, items |-> items]

\* The body of the loop for one (m, d) of meals_to_fetch: its
\* cursor.execute calls and its menus[m] = veg_items, in program order.
\* week_type is computed once, from the requested date, before the loop.
PairSteps(m, d, meal, week_type) ==
    LET day == DayName(d)
        temp_menu == Select(temporary_menu, week_type, day, m)
        permanent == Select(menu, week_type, day, m)
        active == (m = meal)
    IN  (IF active
         THEN IF temp_menu # {}
              THEN <<Query("temporary_menu", week_type, day, m, d)>>
              ELSE <<Query("temporary_menu", week_type, day, m, d),
                     Query("menu", week_type, day, m, d)>>
         ELSE <<Query("menu", week_type, day, m, d)>>)
        \o <<Assign(m, d, VegItems(active, temp_menu, permanent))>>
        \o (IF active
            THEN <<Query("feedback_details", week_type, day, m, d)>>
            ELSE <<>>)

RECURSIVE LoopSteps(_, _, _, _)
LoopSteps(pairs, i, meal, week_type) ==
    IF i > Len(pairs) THEN <<>>
    ELSE PairSteps(pairs[i][1], pairs[i][2], meal, week_type)
         \o LoopSteps(pairs, i + 1, meal, week_type)

QueriesUpTo(steps, p) == Cardinality({j \in 1..p : steps[j].kind = "query"})

\* What the top-rated query can return for the requested slot: None, or an
\* item of the permanent menu of that slot (the query joins menu on
\* food_item); which one depends on the stored ratings.
TopRatedChoices(date, meal) ==
    LET d == IF date = <<>> THEN today ELSE date[1]
        m == IF meal # None THEN meal ELSE get_current_meal(<<>>, minuteOfDay)
    IN  {None} \cup (IF m = None THEN {}
                     ELSE Select(menu, WeekType(d), DayName(d), m))

\* The menus dict after the steps in done: menus[m] = veg_items for every
\* assignment executed.
MenusAfter(done) ==
    LET assigned == {j \in 1..Len(done) : done[j].kind = "assign"}
    IN  [m \in {done[j].meal : j \in assigned} |->
            done[CHOOSE j \in assigned : done[j].meal = m].items]

\* Store call failAt raises: call 1 is get_db_cursor, call k + 1 the k-th
\* cursor.execute, and the call after the last execute is the closing of
\* the cursor and the connection when the with block is left.
StoreRaises(all, failAt) ==
    failAt >= 1 /\ failAt <= QueriesUpTo(all, Len(all)) + 2

\* The steps executed before store call failAt raises (all of them when no
\* call raises, or only the closing does).
StepsBefore(all, failAt) ==
    IF failAt = 0 \/ failAt > QueriesUpTo(all, Len(all)) + 1 THEN all
    ELSE IF failAt = 1 THEN <<>>
    ELSE SubSeq(all, 1, (CHOOSE p \in 1..Len(all) :
                            /\ all[p].kind = "query"
                            /\ QueriesUpTo(all, p) = failAt - 1) - 1)

\* The try block from the loop on, and the handler.
FetchOutcome(d0, m0, meals_to_fetch, raised, done, menus, top) ==
    LET top_rated_item == top
    IN  [called |-> TRUE, date |-> d0, meal |-> m0,
         pairs |-> meals_to_fetch,
         steps |-> done,
         raised |-> raised,
         resolved |-> menus,
         ret |-> IF raised THEN OnException(m0, menus)
                 ELSE [meal |-> m0, menus |-> menus, top |-> top_rated_item]]

FetchLoop(d0, m0, meals_to_fetch, raised, done, top) ==
    FetchOutcome(d0, m0, meals_to_fetch, raised, done, MenusAfter(done), top)

FetchPairs(d0, m0, meals_to_fetch, all, failAt, top) ==
    FetchLoop(d0, m0, meals_to_fetch, StoreRaises(all, failAt),
              StepsBefore(all, failAt), top)

\* MenuService._fetch_menu_from_db(date, meal).  failAt = 0: the store
\* answers every call; failAt >= 1: store call failAt raises (a number
\* beyond the calls of the pass: none does).  top is the answer of the
\* top-rated query.
fetch_menu_from_db(date, meal, failAt, top) ==
    LET d0 == IF date = <<>> THEN today ELSE date[1]
        m0 == IF meal # None THEN meal ELSE get_current_meal(<<>>, minuteOfDay)
    IN  IF m0 = None
        THEN [called |-> TRUE, date |-> d0, meal |-> m0, pairs |-> <<>>,
              steps |-> <<>>, raised |-> FALSE, resolved |-> EmptyMenus,
              ret |-> EmptyResult]
        ELSE FetchPairs(d0, m0, get_meals_to_fetch(m0, d0),
                        LoopSteps(get_meals_to_fetch(m0, d0), 1, m0, WeekType(d0)),
                        failAt, top)

NoFetch == [called |-> FALSE, date |-> 0, meal |-> None, pairs |-> <<>>,
            steps |-> <<>>, raised |-> FALSE, resolved |-> EmptyMenus,
            ret |-> EmptyResult]

\* The dates a caller asks for: none (today), a day of the modelled week,
\* or the day a fortnight after its first day.
DateArgs ==
    {<<>>} \cup {<<d>> : d \in FirstDay..MaxDay}
           \cup {<<FirstDay + 2 * Len(DAYS)>>}
MealArgs == MEALS \cup {None}

\* A caller resolves the menu; fetch holds the call until it has returned.
FetchMenu ==
    \E date \in DateArgs, meal \in MealArgs, failAt \in 0..MaxStoreCalls :
        \E top \in TopRatedChoices(date, meal) :
            /\ ~fetch.called
            /\ fetch' = fetch_menu_from_db(date, meal, failAt, top)
            /\ UNCHANGED <<threadVars, managerVars, schedVars,
                           today, temporary_menu, menu, timeVars, cacheVars, serviceVars>>

\* The caller has taken the result.
FetchReturn ==
    /\ fetch.called
    /\ fetch' = NoFetch
    /\ UNCHANGED <<threadVars, managerVars, schedVars,
                   today, temporary_menu, menu, timeVars, cacheVars, serviceVars>>

\* The mutant of FreshOverrides: the rows created today are deleted too
\* (created_at <= current_date).
FreshOverrides_inclusive(table) == {r \in table : r.created_at > today}

\* The mutant of FreshOverrides: each run deletes the rows of the oldest
\* day the table holds, a rolling retention instead of a date predicate.
FreshOverrides_oldest_day(table) ==
    {r \in table : \E x \in table : x.created_at < r.created_at}

\* DELETE FROM temporary_menu WHERE created_at < current_date
FreshOverrides(table) == {r \in table : r.created_at >= today}

\* DELETE FROM non_veg_menu_items / non_veg_menu_main WHERE menu_date <
\* current_date
FreshNonVeg(table) == {r \in table : r.menu_date >= today}

\* admin.update_veg_menu (POST) with a non-empty list of items.  The
\* handler's get_current_meal is the one of app.utils.helpers, which first
\* deletes the override and non-veg rows of earlier days in a transaction
\* of its own (a failure is logged and ignored); then the rows of the
\* current (week_type, day, meal) are replaced, and a store failure rolls
\* that transaction back.
UpdateVegMenu ==
    \E food_items \in SUBSET Items \ {{}}, cleaned \in BOOLEAN, ok \in BOOLEAN :
        LET week_type == WeekType(today)
            day == DayName(today)
            meal == get_current_meal(<<>>, minuteOfDay)
            overrides == IF cleaned THEN FreshOverrides(temporary_menu)
                         ELSE temporary_menu
            kept == {r \in overrides :
                        ~(r.week_type = week_type /\ r.day = day /\ r.meal = meal)}
            added == {[week_type |-> week_type, day |-> day, meal |-> meal,
                       food_item |-> item, created_at |-> today] :
                      item \in food_items}
        IN  /\ ~fetch.called
            /\ temporary_menu' = IF ok THEN kept \cup added ELSE overrides
            /\ non_veg_menu' = IF cleaned THEN FreshNonVeg(non_veg_menu)
                               ELSE non_veg_menu
            /\ UNCHANGED <<threadVars, managerVars, schedVars,
                           today, menu, fetch, timeVars, cacheVars,
                           menu_cache, non_veg_cache, payment_cache, svc>>

\* admin.restore_default_veg_menu: after the same deletion of old rows by
\* get_current_meal, the rows of the current (week_type, day, meal) are
\* deleted.
RestoreDefaultVegMenu ==
    \E cleaned \in BOOLEAN, ok \in BOOLEAN :
        LET week_type == WeekType(today)
            day == DayName(today)
            meal == get_current_meal(<<>>, minuteOfDay)
            overrides == IF cleaned THEN FreshOverrides(temporary_menu)
                         ELSE temporary_menu
            kept == {r \in overrides :
                        ~(r.week_type = week_type /\ r.day = day /\ r.meal = meal)}
        IN  /\ ~fetch.called
            /\ temporary_menu' = IF ok THEN kept ELSE overrides
            /\ non_veg_menu' = IF cleaned THEN FreshNonVeg(non_veg_menu)
                               ELSE non_veg_menu
            /\ UNCHANGED <<threadVars, managerVars, schedVars,
                           today, menu, fetch, timeVars, cacheVars,
                           menu_cache, non_veg_cache, payment_cache, svc>>

\* A run of cleanup_old_menu as cleanup_log keeps it: the date it read and
\* the tables before and after it.
CleanupRun(ok) ==
    [date |-> today,
     before |-> [temporary_menu |-> temporary_menu,
                 non_veg_menu |-> non_veg_menu],
     after |-> [temporary_menu |-> IF ok THEN FreshOverrides(temporary_menu)
                                   ELSE temporary_menu,
                non_veg_menu |-> IF ok THEN FreshNonVeg(non_veg_menu)
                                 ELSE non_veg_menu]]

\* The body of scheduler.cleanup_old_menu: the override rows and the
\* non-veg rows of earlier days are deleted in one transaction; a failure
\* rolls it back, is logged, and nothing is deleted.
CleanupEffect(ok) ==
    /\ temporary_menu' = CleanupRun(ok).after.temporary_menu
    /\ non_veg_menu' = CleanupRun(ok).after.non_veg_menu
    /\ cleanup_log' =
           IF ok
           THEN <<CleanupRun(ok)>>
                    \o SubSeq(cleanup_log, 1,
                              IF Len(cleanup_log) > 0 THEN 1 ELSE 0)
           ELSE cleanup_log

\* scheduler.cleanup_old_menu is called.
cleanup_old_menu ==
    \E ok \in BOOLEAN :
        /\ ~fetch.called
        /\ CleanupEffect(ok)
        /\ UNCHANGED <<threadVars, managerVars, jobs, alertJob,
                       high_low_alerts_cache, waste_summary, feedback, digest,
                       today, menu, fetch, timeVars, cacheVars,
                       menu_cache, non_veg_cache, payment_cache, svc>>

\* Midnight: the next day of the modelled days begins.
Midnight ==
    /\ ~fetch.called
    /\ today < MaxDay
    /\ today' = today + 1
    /\ UNCHANGED <<threadVars, managerVars, schedVars,
                   temporary_menu, menu, fetch, timeVars, cacheVars,
                   serviceVars>>

\* mess.add_non_veg_menu (POST) of mess1 with one new item, for a request
\* whose get_menu() returned the active meal: unless the item is already
\* on today's menu of the meal, a menu row and its item row are inserted in
\* one transaction; a store failure is logged and nothing is inserted.
AddNonVegMenu ==
    \E ok \in BOOLEAN :
        LET meal == get_current_meal(<<>>, minuteOfDay)
            created_at == today
            existing_items == {r.food_item : r \in
                                  {x \in non_veg_menu :
                                      /\ x.menu_date = created_at
                                      /\ x.meal = meal
                                      /\ x.mess = "mess1"}}
            added == {[menu_date |-> created_at, meal |-> meal,
                       mess |-> "mess1", food_item |-> "Chicken",
                       cost |-> 50, item_id |-> 1]}
        IN  /\ ~fetch.called
            /\ non_veg_menu' = IF ok /\ "Chicken" \notin existing_items
                               THEN non_veg_menu \cup added
                               ELSE non_veg_menu
            /\ UNCHANGED <<threadVars, managerVars, schedVars,
                           today, temporary_menu, menu, fetch, timeVars,
                           cacheVars, menu_cache, non_veg_cache,
                           payment_cache, svc>>

\* get_current_meal of app/utils/helpers.py: the rows of earlier days are
\* deleted first, in a transaction whose failure is logged and ignored;
\* then the meal is derived from the wall clock.  With an hour passed in,
\* total_time is never assigned and reading it raises UnboundLocalError.
HelpersGetCurrentMeal ==
    \E hour \in {<<>>} \cup {<<h>> : h \in 0..23}, cleaned \in BOOLEAN :
        /\ timeCall.op = "none"
        /\ ~fetch.called
        /\ temporary_menu' = IF cleaned THEN FreshOverrides(temporary_menu)
                             ELSE temporary_menu
        /\ non_veg_menu' = IF cleaned THEN FreshNonVeg(non_veg_menu)
                           ELSE non_veg_menu
        /\ timeCall' = [NoTimeCall EXCEPT
               !.op = "helpers.get_current_meal",
               !.hour = hour,
               !.ret = IF hour = <<>> THEN get_current_meal(<<>>, minuteOfDay)
                       ELSE "UnboundLocalError"]
        /\ UNCHANGED <<threadVars, managerVars, schedVars,
                       minuteOfDay, today, menu, fetch, cacheVars,
                       menu_cache, non_veg_cache, payment_cache, svc>>

\* The caller of a time derivation has taken the result.
TimeReturn ==
    /\ timeCall.op # "none"
    /\ timeCall' = NoTimeCall
    /\ UNCHANGED <<threadVars, managerVars, schedVars,
                   minuteOfDay, cacheVars, menuVars, serviceVars>>

\* Two weeks pass: the same weekday of the same week parity comes round.
FortnightPasses ==
    /\ ~fetch.called
    /\ today = FirstDay
    /\ today' = today + 2 * Len(DAYS)
    /\ UNCHANGED <<threadVars, managerVars, schedVars,
                   temporary_menu, menu, fetch, timeVars,
                   cacheVars, serviceVars>>

\* The recurring schedule for the days the model covers (tomorrow of the
\* last day included): every (week_type, day, meal) slot serves three
\* dishes, named after its week type, its day and its meal, so that no two
\* slots serve the same menu.
FullMenu ==
    UNION {{[week_type |-> w, day |-> DayName(d), meal |-> m, food_item |-> x] :
            x \in {w, DayName(d), m}} :
           w \in {"Odd", "Even"}, d \in FirstDay..(MaxDay + 1), m \in MEALS}

(***************************************************************************)
(* MenuService.get_menu, get_non_veg_menu, get_amount_data                 *)
(***************************************************************************)
MENU_TTL == 3600
PAYMENT_TTL == 3600

\* time.time() at the wall clock's minute, in seconds.
ClockSeconds == (today * MinutesPerDay + minuteOfDay) * 60

\* str(date): dates are told apart by their day number.
DateStr(d) == ToString(d)

\* The data of an empty result list, [].
NoRows == [rows |-> {}]

NoCall == [op |-> "none", failed |-> FALSE, raised |-> FALSE, hit |-> FALSE,
           ret |-> PyNone]

Call(op, failed, raised, hit, ret) ==
    [op |-> op, failed |-> failed, raised |-> raised, hit |-> hit, ret |-> ret]

\* The mutant of get_menu: a cached empty result counts as a miss.
get_menu_empty_is_miss(date, meal, failAt, top) ==
    LET current_meal == IF meal # None THEN meal
                        ELSE get_current_meal(<<>>, minuteOfDay)
        cache_key == "menu_" \o current_meal \o "_"
                     \o (IF date = <<>> THEN "today" ELSE DateStr(date[1]))
        cached == TTLCache_get(menu_cache, cache_key, MENU_TTL, ClockSeconds)
        fetched == fetch_menu_from_db(date, current_meal, failAt, top)
    IN  IF cached.ret # PyNone /\ cached.ret.meal # None
        THEN [call |-> Call("get_menu", FALSE, FALSE, TRUE, cached.ret),
              cache |-> cached.store]
        ELSE [call |-> Call("get_menu", fetched.raised, FALSE, FALSE, fetched.ret),
              cache |-> TTLCache_set(cached.store, cache_key, fetched.ret,
                                     ClockSeconds)]

\* MenuService.get_menu(date, meal): the call's record and the menu cache it
\* leaves.  A cached 3-tuple is truthy, so any cached result is served.
\* _fetch_menu_from_db catches every exception itself, so the except branch
\* of get_menu is never taken.
get_menu(date, meal, failAt, top) ==
    LET current_meal == IF meal # None THEN meal
                        ELSE get_current_meal(<<>>, minuteOfDay)
        cache_key == "menu_" \o current_meal \o "_"
                     \o (IF date = <<>> THEN "today" ELSE DateStr(date[1]))
        cached == TTLCache_get(menu_cache, cache_key, MENU_TTL, ClockSeconds)
        fetched == fetch_menu_from_db(date, current_meal, failAt, top)
    IN  IF cached.ret # PyNone
        THEN [call |-> Call("get_menu", FALSE, FALSE, TRUE, cached.ret),
              cache |-> cached.store]
        ELSE [call |-> Call("get_menu", fetched.raised, FALSE, FALSE, fetched.ret),
              cache |-> TTLCache_set(cached.store, cache_key, fetched.ret,
                                     ClockSeconds)]

\* SELECT distinct food_item, MIN(cost) ... WHERE menu_date = %s AND
\* meal = %s AND mess = %s GROUP BY food_item
NonVegRows(date, meal, mess_name) ==
    LET found == {r \in non_veg_menu : /\ r.menu_date = date
                                       /\ r.meal = meal
                                       /\ r.mess = mess_name}
    IN  {<<r.food_item, r.cost>> : r \in
            {x \in found : \A y \in found :
                               y.food_item = x.food_item => x.cost <= y.cost}}

\* The mutant of NonVegOnException: the handler lets the exception go on to
\* the caller.
NonVegOnException_reraise(cache, cache_key) ==
    [call |-> Call("get_non_veg_menu", TRUE, TRUE, FALSE, PyNone),
     cache |-> cache]

\* except Exception: log, cache [] under the key and return [].
NonVegOnException(cache, cache_key) ==
    [call |-> Call("get_non_veg_menu", TRUE, FALSE, FALSE, NoRows),
     cache |-> TTLCache_set(cache, cache_key, NoRows, ClockSeconds)]

\* MenuService.get_non_veg_menu(mess_name, date, meal).  failAt = 1:
\* get_db_cursor raises; failAt = 2: cursor.execute raises; failAt = 3: the
\* closing of the cursor raises, after data was cached and before the
\* handler caches [] over it.
get_non_veg_menu(mess_name, date, meal, failAt) ==
    LET d0 == IF date = <<>> THEN today ELSE date[1]
        m0 == IF meal # None THEN meal ELSE get_current_meal(<<>>, minuteOfDay)
        cache_key == "non_veg_" \o mess_name \o "_" \o DateStr(d0) \o "_" \o m0
        cached == TTLCache_get(non_veg_cache, cache_key, MENU_TTL, ClockSeconds)
        data == [rows |-> NonVegRows(d0, m0, mess_name)]
    IN  IF m0 = None
        THEN [call |-> Call("get_non_veg_menu", FALSE, FALSE, FALSE, NoRows),
              cache |-> non_veg_cache]
        ELSE IF cached.ret # PyNone
        THEN [call |-> Call("get_non_veg_menu", FALSE, FALSE, TRUE, cached.ret),
              cache |-> cached.store]
        ELSE IF failAt \in {1, 2}
        THEN NonVegOnException(cached.store, cache_key)
        ELSE IF failAt = 3
        THEN NonVegOnException(
                 TTLCache_set(cached.store, cache_key, data, ClockSeconds),
                 cache_key)
        ELSE [call |-> Call("get_non_veg_menu", FALSE, FALSE, FALSE, data),
              cache |-> TTLCache_set(cached.store, cache_key, data, ClockSeconds)]

\* What fetchone can return for SELECT n.item_id, n.cost ... WHERE
\* n.food_item = %s AND m.menu_date = %s AND m.meal = %s AND m.mess = %s:
\* one of the matching rows, or None when there is none.
AmountRows(food_item, date, meal, mess_name) ==
    LET found == {r \in non_veg_menu : /\ r.food_item = food_item
                                       /\ r.menu_date = date
                                       /\ r.meal = meal
                                       /\ r.mess = mess_name}
    IN  IF found = {} THEN {PyNone}
        ELSE {[item_id |-> r.item_id, cost |-> r.cost] : r \in found}

\* except Exception: log, cache None under the key and return None.
AmountOnException(cache, cache_key) ==
    [call |-> Call("get_amount_data", TRUE, FALSE, FALSE, PyNone),
     cache |-> TTLCache_set(cache, cache_key, PyNone, ClockSeconds)]

\* MenuService.get_amount_data(food_item, mess_name, date, meal); row is the
\* answer of fetchone, failAt as in get_non_veg_menu.
get_amount_data(food_item, mess_name, date, meal, failAt, row) ==
    LET d0 == IF date = <<>> THEN today ELSE date[1]
        m0 == IF meal # None THEN meal ELSE get_current_meal(<<>>, minuteOfDay)
        cache_key == "amount_" \o food_item \o "_" \o mess_name \o "_"
                     \o DateStr(d0) \o "_" \o m0
        cached == TTLCache_get(payment_cache, cache_key, PAYMENT_TTL, ClockSeconds)
    IN  IF m0 = None \/ food_item = "" \/ mess_name = ""
        THEN [call |-> Call("get_amount_data", FALSE, FALSE, FALSE, PyNone),
              cache |-> payment_cache]
        ELSE IF cached.ret # PyNone
        THEN [call |-> Call("get_amount_data", FALSE, FALSE, TRUE, cached.ret),
              cache |-> cached.store]
        ELSE IF failAt \in {1, 2}
        THEN AmountOnException(cached.store, cache_key)
        ELSE IF failAt = 3
        THEN AmountOnException(
                 TTLCache_set(cached.store, cache_key, row, ClockSeconds),
                 cache_key)
        ELSE [call |-> Call("get_amount_data", FALSE, FALSE, FALSE, row),
              cache |-> TTLCache_set(cached.store, cache_key, row, ClockSeconds)]

Messes == {"mess1", "mess2"}
FoodArgs == {"Chicken", ""}

\* A page asks for the menu, as main.index, mess and student pages do:
\* get_menu() with no arguments.
GetMenu ==
    \E failAt \in 0..MaxStoreCalls :
        \E top \in TopRatedChoices(<<>>, None) :
            LET r == get_menu(<<>>, None, failAt, top)
            IN  /\ svc.op = "none"
                /\ svc' = r.call
                /\ menu_cache' = r.cache
                /\ UNCHANGED <<threadVars, managerVars, schedVars,
                               non_veg_menu, non_veg_cache, payment_cache,
                               timeVars, cacheVars, menuVars>>

\* A caller asks for today's menu of the running meal, or of the breakfast:
\* get_menu(meal=meal).
GetMenuOfMeal ==
    \E meal \in {None, "Breakfast"}, failAt \in 0..MaxStoreCalls :
        \E top \in TopRatedChoices(<<>>, meal) :
            LET r == get_menu(<<>>, meal, failAt, top)
            IN  /\ svc.op = "none"
                /\ svc' = r.call
                /\ menu_cache' = r.cache
                /\ UNCHANGED <<threadVars, managerVars, schedVars,
                               non_veg_menu, non_veg_cache, payment_cache,
                               timeVars, cacheVars, menuVars>>

\* A page asks for a mess's non-veg menu: get_non_veg_menu(mess).
GetNonVegMenu ==
    \E mess_name \in Messes, failAt \in 0..3 :
        LET r == get_non_veg_menu(mess_name, <<>>, None, failAt)
        IN  /\ svc.op = "none"
            /\ svc' = r.call
            /\ non_veg_cache' = r.cache
            /\ UNCHANGED <<threadVars, managerVars, schedVars,
                           non_veg_menu, menu_cache, payment_cache,
                           timeVars, cacheVars, menuVars>>

\* A payment page asks for an item's (item_id, cost).
GetAmountData ==
    \E food_item \in FoodArgs, failAt \in 0..3 :
        \E row \in AmountRows(food_item, today,
                              get_current_meal(<<>>, minuteOfDay), "mess1") :
            LET r == get_amount_data(food_item, "mess1", <<>>, None, failAt, row)
            IN  /\ svc.op = "none"
                /\ svc' = r.call
                /\ payment_cache' = r.cache
                /\ UNCHANGED <<threadVars, managerVars, schedVars,
                               non_veg_menu, menu_cache, non_veg_cache,
                               timeVars, cacheVars, menuVars>>

\* The request has its answer.
ServiceReturn ==
    /\ svc.op # "none"
    /\ svc' = NoCall
    /\ UNCHANGED <<threadVars, managerVars, schedVars,
                   non_veg_menu, menu_cache, non_veg_cache, payment_cache,
                   timeVars, cacheVars, menuVars>>

\* The wall clock reaches the next meal period of the day.
Tick ==
    /\ svc.op = "none"
    /\ \E next \in ClockPoints :
           /\ next > minuteOfDay
           /\ \A p \in ClockPoints : p > minuteOfDay => next <= p
           /\ minuteOfDay' = next
    /\ UNCHANGED <<threadVars, managerVars, schedVars,
                   timeCall, cacheVars, menuVars, serviceVars>>

\* An hour passes on the wall clock, up to MaxHour o'clock.
MaxHour == 19

WaitAnHour ==
    /\ svc.op = "none"
    /\ minuteOfDay + 60 <= MaxHour * 60
    /\ minuteOfDay' = minuteOfDay + 60
    /\ UNCHANGED <<threadVars, managerVars, schedVars,
                   timeCall, cacheVars, menuVars, serviceVars>>

\* Half an hour passes on the wall clock of the night: the clock wraps at
\* midnight and the next day begins, up to one o'clock of the second day.
NightPasses ==
    /\ svc.op = "none"
    /\ IF minuteOfDay + 30 < MinutesPerDay
       THEN /\ today = FirstDay \/ minuteOfDay + 30 <= 60
            /\ minuteOfDay' = minuteOfDay + 30
            /\ today' = today
       ELSE /\ today = FirstDay
            /\ minuteOfDay' = minuteOfDay + 30 - MinutesPerDay
            /\ today' = today + 1
    /\ UNCHANGED <<threadVars, managerVars, schedVars,
                   timeCall, cacheVars, temporary_menu, menu, fetch,
                   serviceVars>>

\* Half an hour passes on the wall clock, up to MaxHour o'clock.
HalfAnHourPasses ==
    /\ svc.op = "none"
    /\ minuteOfDay + 30 <= MaxHour * 60
    /\ minuteOfDay' = minuteOfDay + 30
    /\ UNCHANGED <<threadVars, managerVars, schedVars,
                   timeCall, cacheVars, menuVars, serviceVars>>

\* MenuService.clear_menu_cache: the menu cache and the non-veg cache are
\* emptied.
ClearMenuCache ==
    /\ svc.op = "none"
    /\ menu_cache' = TTLCache_clear(menu_cache, None)
    /\ non_veg_cache' = TTLCache_clear(non_veg_cache, None)
    /\ UNCHANGED <<threadVars, managerVars, schedVars,
                   non_veg_menu, payment_cache, svc,
                   timeVars, cacheVars, menuVars>>

\* Today's non-veg menu: mess1 serves chicken at Snacks and at Dinner, mess2
\* serves none.
ChickenMenu ==
    {[menu_date |-> FirstDay, meal |-> m, mess |-> "mess1",
      food_item |-> "Chicken", cost |-> 50, item_id |-> 1] :
     m \in {"Snacks", "Dinner"}}

(***************************************************************************)
(* CacheManager: the nine named TTLCache instances                         *)
(***************************************************************************)
\* The caches in the order clear_all_caches goes through them.
CacheNames == <<"menu_cache", "rating_cache", "non_veg_cache", "payment_cache",
                "feedback_cache", "waste_cache", "notification_cache",
                "feature_toggle_cache", "poll_cache">>

\* The _store of every cache of cache_manager, by attribute name.
Caches ==
    [menu_cache |-> menu_cache, rating_cache |-> rating_cache,
     non_veg_cache |-> non_veg_cache, payment_cache |-> payment_cache,
     feedback_cache |-> feedback_cache, waste_cache |-> waste_cache,
     notification_cache |-> notification_cache,
     feature_toggle_cache |-> feature_toggle_cache, poll_cache |-> poll_cache]

\* The stores after a step are those of c.
SetCaches(c) ==
    /\ menu_cache' = c.menu_cache
    /\ rating_cache' = c.rating_cache
    /\ non_veg_cache' = c.non_veg_cache
    /\ payment_cache' = c.payment_cache
    /\ feedback_cache' = c.feedback_cache
    /\ waste_cache' = c.waste_cache
    /\ notification_cache' = c.notification_cache
    /\ feature_toggle_cache' = c.feature_toggle_cache
    /\ poll_cache' = c.poll_cache

\* The mutant of clear_all_caches: the list of caches stops short of the
\* last one added to the manager, poll_cache.
clear_all_caches_stale_list(c, i) ==
    [name \in DOMAIN c |->
        IF \E j \in i..(Len(CacheNames) - 1) : CacheNames[j] = name
        THEN TTLCache_clear(c[name], None) ELSE c[name]]

\* CacheManager.clear_all_caches: cache.clear() on each cache of the list,
\* from the i-th on.
clear_all_caches(c, i) ==
    [name \in DOMAIN c |->
        IF \E j \in i..Len(CacheNames) : CacheNames[j] = name
        THEN TTLCache_clear(c[name], None) ELSE c[name]]

\* The keys callers use: two on the menu cache, one on every other cache.
ManagerKeys(name) == IF name = "menu_cache" THEN Keys ELSE {"k1"}

\* The values callers store: two on the menu cache, one on every other.
ManagerValues(name) ==
    IF name = "menu_cache" THEN {[v |-> "v1"], [v |-> "v2"]} ELSE {[v |-> "v1"]}

\* Every cache of the manager empty, as CacheManager.__init__ leaves them.
EmptyCaches ==
    [name \in {CacheNames[i] : i \in 1..Len(CacheNames)} |-> EmptyStore]

NoManagerCall == [op |-> "none", name |-> None, key |-> None,
                  before |-> EmptyCaches]

ManagerCall(op, name, key) ==
    [op |-> op, name |-> name, key |-> key, before |-> Caches]

ManagerFrame ==
    UNCHANGED <<threadVars, schedVars, timeVars, cacheVars, menuVars,
                non_veg_menu, svc>>

\* A caller stores a value in one of the named caches.
ManagerSet ==
    \E i \in 1..Len(CacheNames) :
        \E key \in ManagerKeys(CacheNames[i]),
           value \in ManagerValues(CacheNames[i]) :
            LET name == CacheNames[i]
            IN  /\ mgr.op = "none"
                /\ SetCaches([Caches EXCEPT
                                 ![name] = TTLCache_set(@, key, value, now)])
                /\ mgr' = ManagerCall("set", name, key)
                /\ ManagerFrame

\* A caller clears one key of one of the named caches, or all of it.
ManagerClear ==
    \E i \in 1..Len(CacheNames) :
        \E key \in ManagerKeys(CacheNames[i]) \cup {None, ""} :
            LET name == CacheNames[i]
            IN  /\ mgr.op = "none"
                /\ SetCaches([Caches EXCEPT ![name] = TTLCache_clear(@, key)])
                /\ mgr' = ManagerCall("clear", name, key)
                /\ ManagerFrame

\* An administrative reset.
ClearAllCaches ==
    /\ mgr.op = "none"
    /\ SetCaches(clear_all_caches(Caches, 1))
    /\ mgr' = ManagerCall("clear_all_caches", None, None)
    /\ ManagerFrame

\* The call has returned.
ManagerReturn ==
    /\ mgr.op # "none"
    /\ mgr' = NoManagerCall
    /\ UNCHANGED <<rating_cache, feedback_cache, waste_cache,
                   notification_cache, feature_toggle_cache, poll_cache,
                   menu_cache, non_veg_cache, payment_cache>>
    /\ ManagerFrame

(***************************************************************************)
(* The background scheduler and its jobs                                   *)
(*                                                                         *)
(* start_scheduler adds six jobs to one BackgroundScheduler.  When a job's *)
(* trigger fires, the scheduler submits a run of the job to its thread     *)
(* pool unless max_instances runs of that job are still executing, in      *)
(* which case the run is skipped; a run ends when the job function         *)
(* returns.                                                                *)
(***************************************************************************)
NotifyJobs == {"notify_breakfast", "notify_lunch", "notify_snacks",
               "notify_dinner"}
JobIds == {"cleanup_old_menu", "generate_high_low_alerts"} \cup NotifyJobs

\* BackgroundScheduler(timezone=ist) and add_job(...) set no max_instances:
\* the scheduler's default of one running instance per job applies.
max_instances == 1

\* The scheduler's books: the number of executing runs of each job; the
\* job whose run was last skipped for want of a free instance, until a run
\* of that job ends; and the job whose body last logged an error of the
\* store or of a collaborator, until its next run is submitted.
NoJobs == [instances |-> [job \in JobIds |-> 0], skipped |-> None,
           failed |-> None]

\* The mutant of CanSubmit: a run is submitted whatever is still executing.
CanSubmit_unbounded(job) == TRUE

\* A run of the job may be submitted: fewer than max_instances are
\* executing.
CanSubmit(job) == jobs.instances[job] < max_instances

\* The mutant of Released: the error of the body is not caught, and the
\* run that met it never ends.
Released_unless_failed(job, ok) ==
    [instances |-> [jobs.instances EXCEPT
                       ![job] = IF ok THEN @ - 1 ELSE @],
     skipped |-> IF jobs.skipped = job /\ ok THEN None ELSE jobs.skipped,
     failed |-> IF ~ok THEN job ELSE jobs.failed]

\* The job function has returned, after its body ran through (ok) or
\* after its except clause logged an error: the run has ended.
Released(job, ok) ==
    [instances |-> [jobs.instances EXCEPT ![job] = @ - 1],
     skipped |-> IF jobs.skipped = job THEN None ELSE jobs.skipped,
     failed |-> IF ~ok THEN job ELSE jobs.failed]

\* The trigger of the job fires, also while an earlier run of it is still
\* executing.
TriggerJob(job) ==
    /\ jobs' = IF CanSubmit(job)
               THEN [jobs EXCEPT !.instances[job] = @ + 1,
                                 !.failed = IF @ = job THEN None ELSE @]
               ELSE [jobs EXCEPT !.skipped = job]
    /\ UNCHANGED <<threadVars, managerVars, alertJob,
                   high_low_alerts_cache, waste_summary, feedback,
                   digest, cleanup_log, timeVars, cacheVars, menuVars,
                   serviceVars>>

\* The trigger of one of the six jobs fires.
Trigger == \E job \in JobIds : TriggerJob(job)

\* The hourly interval trigger fires.
TriggerAlerts == TriggerJob("generate_high_low_alerts")

\* The run of the cleanup job executes cleanup_old_menu and ends.
RunCleanupJob ==
    \E ok \in BOOLEAN :
        /\ jobs.instances["cleanup_old_menu"] > 0
        /\ CleanupEffect(ok)
        /\ jobs' = Released("cleanup_old_menu", ok)
        /\ UNCHANGED <<threadVars, managerVars, alertJob,
                       high_low_alerts_cache, waste_summary, feedback, digest,
                       today, menu, fetch, timeVars, cacheVars,
                       menu_cache, non_veg_cache, payment_cache, svc>>

\* The digest sections create_admin_notification_from_critical_feedback
\* may return, one per mess with critical feedback: here their headings,
\* the bodies left out.
Digests == {"<h3>Food Sutra</h3>", "<h3>Shakti</h3>"}

\* The run of a notification job executes send_admin_notification_job and
\* ends: with an empty digest nothing is done; otherwise the messages are
\* inserted for the admin in one transaction and the admin's entry of the
\* notification cache is cleared; a store failure is logged, and nothing is
\* inserted or cleared.
RunNotifyJob ==
    \E job \in NotifyJobs, messages \in SUBSET Digests, ok \in BOOLEAN :
        LET sent == messages # {} /\ ok
        IN  /\ jobs.instances[job] > 0
            /\ notifications' =
                   IF sent
                   THEN notifications \cup
                            {[message |-> m, recipient_type |-> "admin",
                              acked |-> TRUE] : m \in messages}
                   ELSE notifications
            /\ notification_cache' =
                   IF sent
                   THEN TTLCache_clear(notification_cache,
                                       "notifications_" \o "admin")
                   ELSE notification_cache
            /\ jobs' = Released(job, messages = {} \/ ok)
            /\ UNCHANGED <<lock, thread, rating_cache, feedback_cache,
                           waste_cache, feature_toggle_cache, poll_cache, mgr,
                           alertJob, high_low_alerts_cache, waste_summary,
                           feedback, digest, cleanup_log, timeVars, cacheVars,
                           menuVars, serviceVars>>

\* meal_end_times: the end of each meal as (hour, minute), in the order of
\* the dict.
meal_end_times ==
    <<[meal |-> "breakfast", end |-> <<11, 0>>],
      [meal |-> "lunch", end |-> <<16, 0>>],
      [meal |-> "snacks", end |-> <<18, 30>>],
      [meal |-> "dinner", end |-> <<0, 0>>]>>

\* The mutant of TriggerTime: the hour is not moved back when minute - 5
\* is negative.
TriggerTime_same_hour(hour, minute) ==
    IF minute - 5 < 0
    THEN <<hour, minute - 5 + 60>>
    ELSE <<hour, minute - 5>>

\* (trigger_hour, trigger_minute) of the job of a meal that ends at (hour,
\* minute): five minutes before, in the hour before when minute - 5 is
\* negative.
TriggerTime(hour, minute) ==
    IF minute - 5 < 0
    THEN <<(hour - 1) % 24, minute - 5 + 60>>
    ELSE <<hour, minute - 5>>

\* The jobs the loop over meal_end_times adds: id notify_<meal>, a cron
\* trigger at hour and minute.
NotifyTriggers ==
    [i \in DOMAIN meal_end_times |->
        LET at == TriggerTime(meal_end_times[i].end[1],
                              meal_end_times[i].end[2])
        IN  [id |-> "notify_" \o meal_end_times[i].meal,
             hour |-> at[1], minute |-> at[2]]]

\* A cron trigger of a notification job fires: the wall clock in the
\* scheduler's timezone, which is that of get_fixed_time, shows its hour and
\* minute.
CronTrigger ==
    \E i \in DOMAIN NotifyTriggers :
        /\ minuteOfDay = NotifyTriggers[i].hour * 60 + NotifyTriggers[i].minute
        /\ TriggerJob(NotifyTriggers[i].id)

\* A minute of the day passes on the wall clock, up to 23:59.
MinutePasses ==
    /\ minuteOfDay < MinutesPerDay - 1
    /\ minuteOfDay' = minuteOfDay + 1
    /\ UNCHANGED <<threadVars, managerVars, schedVars, timeCall,
                   menuVars, cacheVars, serviceVars>>

(***************************************************************************)
(* generate_high_low_alerts                                                *)
(***************************************************************************)
mess_list == <<"mess1", "mess2">>

\* floors = ['Ground', 'First'] if mess_name == 'mess1' else ['Second',
\* 'Third']
floors(mess_name) ==
    IF mess_name = "mess1" THEN <<"Ground", "First">> ELSE <<"Second", "Third">>

RECURSIVE SumOf(_, _)
\* SUM(field) over a set of rows.
SumOf(rows, field) ==
    IF rows = {} THEN 0
    ELSE LET r == CHOOSE x \in rows : TRUE
         IN  r[field] + SumOf(rows \ {r}, field)

\* The alerts of the first query: the (floor, waste_date) groups of the
\* mess's floors within the last 7 days whose SUM(total_waste) is over 50,
\* as (message, date) with the floor and the sum in the message.  The
\* modelled rows give each mess at most one group, so ORDER BY waste_date
\* DESC leaves one order.
WasteAlerts(mess_name, created_at) ==
    LET rows == {r \in waste_summary :
                    /\ r.waste_date >= created_at - 7
                    /\ (r.floor = floors(mess_name)[1]
                        \/ r.floor = floors(mess_name)[2])}
        groups == {<<r.floor, r.waste_date>> : r \in rows}
        total(g) == SumOf({r \in rows : <<r.floor, r.waste_date>> = g},
                          "total_waste")
        high == {g \in groups : total(g) > 50}
    IN  IF high = {} THEN <<>>
        ELSE LET g == CHOOSE x \in high : TRUE
             IN  <<[kind |-> "High waste", on |-> g[1], value |-> total(g),
                    date |-> g[2]]>>

\* The alerts of the second query: the (meal, feedback_date) groups of the
\* mess within the last 7 days whose AVG(rating) is under 3.0, as (message,
\* date) with the meal and the average in the message.  The averages of the
\* modelled ratings are whole numbers.
FeedbackAlerts(mess_name, created_at) ==
    LET rows == {r \in feedback :
                    /\ r.mess = mess_name
                    /\ r.feedback_date >= created_at - 7}
        groups == {<<r.meal, r.feedback_date>> : r \in rows}
        of(g) == {r \in rows : <<r.meal, r.feedback_date>> = g}
        low == {g \in groups :
                   SumOf(of(g), "rating") < 3 * Cardinality(of(g))}
    IN  IF low = {} THEN <<>>
        ELSE LET g == CHOOSE x \in low : TRUE
             IN  <<[kind |-> "Low feedback", on |-> g[1],
                    value |-> SumOf(of(g), "rating") \div Cardinality(of(g)),
                    date |-> g[2]]>>

\* high_low_alerts_cache = {}
NoAlerts == [m \in {} |-> <<>>]

\* What the two queries of a recomputation read: the rows of waste_summary
\* and of the feedback tables, and the date of get_fixed_time().  Rows are
\* added and never changed or deleted, so the number of rows tells one
\* content of the tables from another.
AlertData ==
    [rows |-> Cardinality(waste_summary) + Cardinality(feedback),
     date |-> today]

\* No recomputation has completed yet.
NoBasis == [m \in {} |-> AlertData]

\* The run of generate_high_low_alerts: its position, the loop index, the
\* local list alerts and what each query added to it.  Kept beside them:
\* seen, the data when the cursor of this iteration was opened; basis, for
\* each mess the data seen by the recomputation that made its list in the
\* cache; outcome, how the iterations of this run ended, in loop order.
NoAlertJob == [pc |-> "idle", i |-> 0, alerts |-> <<>>,
               high |-> <<>>, low |-> <<>>, seen |-> <<>>,
               basis |-> NoBasis, outcome |-> <<>>]

\* The mutant of Published: the list is put into the cache when it is
\* created and filled there.
Published_in_place(cache, mess_name, alerts, pc) ==
    [m \in DOMAIN cache \cup {mess_name} |->
        IF m = mess_name THEN alerts ELSE cache[m]]

\* The mutant of Published: the assignment extends the list found in the
\* cache.
Published_appending(cache, mess_name, alerts, pc) ==
    IF pc = "assign"
    THEN [m \in DOMAIN cache \cup {mess_name} |->
             IF m # mess_name THEN cache[m]
             ELSE IF m \in DOMAIN cache THEN cache[m] \o alerts
             ELSE alerts]
    ELSE cache

\* high_low_alerts_cache after the step of the loop body that leaves pc:
\* only the last line of the try block, high_low_alerts_cache[mess_name] =
\* alerts, writes to it.
Published(cache, mess_name, alerts, pc) ==
    IF pc = "assign"
    THEN [m \in DOMAIN cache \cup {mess_name} |->
             IF m = mess_name THEN alerts ELSE cache[m]]
    ELSE cache

\* The data the lists in the cache were made from, after the iteration of
\* the job ended with the result.
Basis_after(job, result) ==
    IF result = "done"
    THEN [m \in DOMAIN job.basis \cup {mess_list[job.i]} |->
             IF m = mess_list[job.i] THEN job.seen[1] ELSE job.basis[m]]
    ELSE job.basis

\* The mutant of NextMess: one try around the whole loop, a failure ends
\* the job.
NextMess_abort(job, result) ==
    IF job.i < Len(mess_list) /\ result = "done"
    THEN [NoAlertJob EXCEPT !.pc = "open", !.i = job.i + 1,
                            !.basis = Basis_after(job, result),
                            !.outcome = Append(job.outcome, result)]
    ELSE [NoAlertJob EXCEPT !.pc = "return",
                            !.basis = Basis_after(job, result),
                            !.outcome = Append(job.outcome, result)]

\* The iteration for a mess ended, with the assignment ("done") or in the
\* except clause ("failed"): the next iteration of for mess_name in
\* mess_list, or the end of the job.
NextMess(job, result) ==
    IF job.i < Len(mess_list)
    THEN [NoAlertJob EXCEPT !.pc = "open", !.i = job.i + 1,
                            !.basis = Basis_after(job, result),
                            !.outcome = Append(job.outcome, result)]
    ELSE [NoAlertJob EXCEPT !.pc = "return",
                            !.basis = Basis_after(job, result),
                            !.outcome = Append(job.outcome, result)]

AlertsFrame ==
    UNCHANGED <<threadVars, managerVars, waste_summary, feedback,
                digest, cleanup_log, timeVars, cacheVars, menuVars, serviceVars>>

\* The run of the alerts job enters generate_high_low_alerts.
BeginAlerts ==
    /\ jobs.instances["generate_high_low_alerts"] > 0
    /\ alertJob.pc = "idle"
    /\ alertJob' = [NoAlertJob EXCEPT !.pc = "open", !.i = 1,
                                    !.basis = alertJob.basis]
    /\ UNCHANGED <<jobs, high_low_alerts_cache>>
    /\ AlertsFrame

\* alerts = [] and the with statement: get_db_cursor may raise, which the
\* except clause logs before the loop goes on to the next mess.
AlertsOpen ==
    \E ok \in BOOLEAN :
        /\ alertJob.pc = "open"
        /\ alertJob' = IF ok
                       THEN [alertJob EXCEPT !.pc = "waste",
                                             !.seen = <<AlertData>>]
                       ELSE NextMess(alertJob, "failed")
        /\ high_low_alerts_cache' =
               Published(high_low_alerts_cache, mess_list[alertJob.i],
                         <<>>, "open")
        /\ UNCHANGED jobs
        /\ AlertsFrame

\* The high-waste query and its loop of alerts.append.
AlertsWaste ==
    \E ok \in BOOLEAN :
        LET mess_name == mess_list[alertJob.i]
            found == WasteAlerts(mess_name, today)
        IN  /\ alertJob.pc = "waste"
            /\ alertJob' = IF ok
                           THEN [alertJob EXCEPT
                                    !.pc = "feedback",
                                    !.high = found,
                                    !.alerts = alertJob.alerts \o found]
                           ELSE NextMess(alertJob, "failed")
            /\ high_low_alerts_cache' =
                   IF ok
                   THEN Published(high_low_alerts_cache, mess_name,
                                  alertJob.alerts \o found, "waste")
                   ELSE high_low_alerts_cache
            /\ UNCHANGED jobs
            /\ AlertsFrame

\* The low-feedback query and its loop of alerts.append.
AlertsFeedback ==
    \E ok \in BOOLEAN :
        LET mess_name == mess_list[alertJob.i]
            found == FeedbackAlerts(mess_name, today)
        IN  /\ alertJob.pc = "feedback"
            /\ alertJob' = IF ok
                           THEN [alertJob EXCEPT
                                    !.pc = "assign",
                                    !.low = found,
                                    !.alerts = alertJob.alerts \o found]
                           ELSE NextMess(alertJob, "failed")
            /\ high_low_alerts_cache' =
                   IF ok
                   THEN Published(high_low_alerts_cache, mess_name,
                                  alertJob.alerts \o found, "feedback")
                   ELSE high_low_alerts_cache
            /\ UNCHANGED jobs
            /\ AlertsFrame

\* The with block is left, where closing the cursor or the connection may
\* raise, and high_low_alerts_cache[mess_name] = alerts.
AlertsAssign ==
    \E ok \in BOOLEAN :
        /\ alertJob.pc = "assign"
        /\ high_low_alerts_cache' =
               IF ok
               THEN Published(high_low_alerts_cache, mess_list[alertJob.i],
                              alertJob.alerts, "assign")
               ELSE high_low_alerts_cache
        /\ alertJob' = NextMess(alertJob, IF ok THEN "done" ELSE "failed")
        /\ UNCHANGED jobs
        /\ AlertsFrame

\* generate_high_low_alerts returns and the run ends.
AlertsReturn ==
    /\ alertJob.pc = "return"
    /\ alertJob' = [NoAlertJob EXCEPT !.basis = alertJob.basis]
    /\ jobs' = Released("generate_high_low_alerts",
                        \A i \in 1..Len(alertJob.outcome) :
                            alertJob.outcome[i] = "done")
    /\ UNCHANGED high_low_alerts_cache
    /\ AlertsFrame

\* The rows the mess staff and the students add while the job runs.
WasteInputs ==
    {[floor |-> "Ground", total_waste |-> 30, waste_date |-> FirstDay],
     [floor |-> "Ground", total_waste |-> 40, waste_date |-> FirstDay],
     [floor |-> "Third", total_waste |-> 60, waste_date |-> FirstDay]}
FeedbackInputs ==
    {[mess |-> "mess1", meal |-> "Lunch", rating |-> 2,
      feedback_date |-> FirstDay],
     [mess |-> "mess1", meal |-> "Lunch", rating |-> 4,
      feedback_date |-> FirstDay],
     [mess |-> "mess2", meal |-> "Lunch", rating |-> 2,
      feedback_date |-> FirstDay]}

\* A waste entry is recorded.
RecordWaste ==
    \E r \in WasteInputs \ waste_summary :
        /\ waste_summary' = waste_summary \cup {r}
        /\ UNCHANGED <<threadVars, managerVars, jobs, alertJob,
                       high_low_alerts_cache, feedback, digest, cleanup_log,
                       timeVars, cacheVars, menuVars, serviceVars>>

\* A rating is submitted.
SubmitRating ==
    \E r \in FeedbackInputs \ feedback :
        /\ feedback' = feedback \cup {r}
        /\ UNCHANGED <<threadVars, managerVars, jobs, alertJob,
                       high_low_alerts_cache, waste_summary, digest, cleanup_log,
                       timeVars, cacheVars, menuVars, serviceVars>>

(***************************************************************************)
(* Request threads on one shared TTLCache instance                         *)
(*                                                                         *)
(* store and now are the instance's _store and time.time(), lock its       *)
(* RLock.  A TTLCache method runs as steps: the with statement acquires    *)
(* the lock, the body reads and writes the store line by line, leaving the *)
(* with block releases.  A request that calls the cache continues where    *)
(* the method returns.                                                     *)
(***************************************************************************)
Threads == {"t1", "t2"}

NOTIFICATION_TTL == 1800

NoLock == [owner |-> None, count |-> 0]

\* The default of self._store.get(key, (None, 0)).
NoPair == [value |-> PyNone, timestamp |-> 0]

NoThread == [req |-> "none", pc |-> "idle", method |-> "none", arg |-> None,
             message |-> None, key |-> None, value |-> PyNone, ttl |-> 0,
             pair |-> NoPair, current_time |-> 0, ret |-> PyNone,
             data |-> PyNone, size |-> 0, seen |-> {}, keys_to_clear |-> {},
             failAt |-> 0, hit |-> FALSE, raised |-> FALSE, must |-> {}]

\* The mutant of CanAcquire: the with statement enters without waiting for
\* the lock.
CanAcquire_unguarded(t) == TRUE

\* threading.RLock: a thread enters when the lock is free or already its
\* own.
CanAcquire(t) == lock.owner \in {None, t}

\* The mutant of TTLCache_release: the lock is kept when the with block is
\* left.
TTLCache_release_keep(l) == l

\* Leaving the with block: one level of the RLock is released.
TTLCache_release(l) ==
    IF l.count <= 1 THEN NoLock ELSE [l EXCEPT !.count = @ - 1]

\* The first line inside the with block of each method.
BodyPc(method) ==
    CASE method = "get" -> "get_read"
      [] method = "set" -> "set_store"
      [] method = "clear" -> "clear_store"
      [] method = "cleanup_expired" -> "cleanup_scan"

\* The thread calls a TTLCache method; cleanup_expired reads the clock
\* before it takes the lock.
CacheCall(th, method, key, value, ttl) ==
    [th EXCEPT !.method = method, !.key = key, !.value = value, !.ttl = ttl,
               !.pc = IF method = "cleanup_expired" THEN "cleanup_time"
                      ELSE "acquire"]

\* for key in keys_to_clear: cache_manager.feedback_cache.clear(key)
NextClear(th) ==
    IF th.keys_to_clear = {}
    THEN [th EXCEPT !.pc = "done"]
    ELSE LET key == CHOOSE k \in th.keys_to_clear : TRUE
         IN  CacheCall([th EXCEPT !.keys_to_clear = @ \ {key}],
                       "clear", key, PyNone, 0)

\* Where the request goes on when the TTLCache method has returned.
\* get_menu (if cached_data:) and get_notifications (is not None) return a
\* cached value and fetch on None; both return after their set.  With
\* failAt = 3 the closing of the cursor raises when the with block of the
\* store is left: get_notifications then caches and returns [],
\* send_notification returns False.
Continue(th) ==
    CASE th.req = "clear_feedback_cache" -> NextClear(th)
      [] th.req = "get_notifications" /\ th.method = "set"
             /\ th.failAt = 3 /\ ~th.raised ->
             CacheCall([th EXCEPT !.raised = TRUE, !.data = NoRows],
                       "set", th.key, NoRows, 0)
      [] th.req = "send_notification" /\ th.failAt = 3 ->
             [th EXCEPT !.raised = TRUE, !.pc = "done"]
      [] th.req \in {"get_menu", "get_notifications"} /\ th.method = "get" ->
             IF th.ret # PyNone
             THEN [th EXCEPT !.pc = "done", !.hit = TRUE, !.data = th.ret]
             ELSE [th EXCEPT !.pc = "fetch"]
      [] OTHER -> [th EXCEPT !.pc = "done"]

ThreadFrame ==
    UNCHANGED <<now, lastOp, prevOp, timeVars, menuVars, serviceVars,
                managerVars, schedVars>>

\* with self._lock:
Acquire ==
    \E t \in Threads :
        /\ thread[t].pc = "acquire"
        /\ CanAcquire(t)
        /\ lock' = [owner |-> t, count |-> lock.count + 1]
        /\ thread' = [thread EXCEPT ![t].pc = BodyPc(thread[t].method)]
        /\ UNCHANGED <<store, notifications>>
        /\ ThreadFrame

\* get: value, timestamp = self._store.get(key, (None, 0))
GetRead ==
    \E t \in Threads :
        /\ thread[t].pc = "get_read"
        /\ thread' = [thread EXCEPT
               ![t].pair = IF thread[t].key \in DOMAIN store
                           THEN store[thread[t].key] ELSE NoPair,
               ![t].pc = "get_check"]
        /\ UNCHANGED <<store, lock, notifications>>
        /\ ThreadFrame

\* get: if time.time() - timestamp < ttl: return value; else pop the key and
\* return None.
GetCheck ==
    \E t \in Threads :
        LET th == thread[t]
            fresh == now - th.pair.timestamp < th.ttl
        IN  /\ th.pc = "get_check"
            /\ store' = IF fresh THEN store ELSE Pop(store, th.key)
            /\ thread' = [thread EXCEPT
                   ![t].ret = IF fresh THEN th.pair.value ELSE PyNone,
                   ![t].pc = "release"]
            /\ UNCHANGED <<lock, notifications>>
            /\ ThreadFrame

\* set: self._store[key] = (value, time.time())
SetStore ==
    \E t \in Threads :
        /\ thread[t].pc = "set_store"
        /\ store' = TTLCache_set(store, thread[t].key, thread[t].value, now)
        /\ thread' = [thread EXCEPT ![t].pc = "release"]
        /\ UNCHANGED <<lock, notifications>>
        /\ ThreadFrame

\* clear: pop the key, or clear the whole store when the key is falsy.
ClearStore ==
    \E t \in Threads :
        /\ thread[t].pc = "clear_store"
        /\ store' = TTLCache_clear(store, thread[t].key)
        /\ thread' = [thread EXCEPT ![t].pc = "release"]
        /\ UNCHANGED <<lock, notifications>>
        /\ ThreadFrame

\* cleanup_expired: current_time = time.time(), before the with statement.
CleanupTime ==
    \E t \in Threads :
        /\ thread[t].pc = "cleanup_time"
        /\ thread' = [thread EXCEPT ![t].current_time = now,
                                    ![t].pc = "acquire"]
        /\ UNCHANGED <<store, lock, notifications>>
        /\ ThreadFrame

\* cleanup_expired: collect the expired keys and pop them.
CleanupScan ==
    \E t \in Threads :
        /\ thread[t].pc = "cleanup_scan"
        /\ store' = TTLCache_cleanup_expired(store, thread[t].ttl,
                                             thread[t].current_time)
        /\ thread' = [thread EXCEPT ![t].pc = "release"]
        /\ UNCHANGED <<lock, notifications>>
        /\ ThreadFrame

\* The with block is left and the method returns to the request.
Release ==
    \E t \in Threads :
        /\ thread[t].pc = "release"
        /\ lock' = TTLCache_release(lock)
        /\ thread' = [thread EXCEPT ![t] = Continue(thread[t])]
        /\ UNCHANGED <<store, notifications>>
        /\ ThreadFrame

\* The request returns to its caller.  A notification is marked acked when
\* the send_notification or the send_admin_notification_job that committed
\* it and cleared the cache has returned.
Return ==
    \E t \in Threads :
        LET th == thread[t]
        IN  /\ th.pc = "done"
            /\ thread' = [thread EXCEPT ![t] = NoThread]
            /\ notifications' =
                   IF th.req = "send_notification" /\ th.method = "clear"
                   THEN {IF r.message = th.message THEN [r EXCEPT !.acked = TRUE]
                         ELSE r : r \in notifications}
                   ELSE IF th.req = "send_admin_notification_job"
                           /\ th.method = "clear"
                   THEN {IF r.message \in th.data.rows
                         THEN [r EXCEPT !.acked = TRUE]
                         ELSE r : r \in notifications}
                   ELSE notifications
            /\ UNCHANGED <<store, lock>>
            /\ ThreadFrame

(***************************************************************************)
(* Callers of one TTLCache: the feedback cache                             *)
(***************************************************************************)
\* f"feedback_summary_{mess_name}"
FeedbackKey(mess_name) == "feedback_summary_" \o mess_name

FeedbackKeys == {FeedbackKey(m) : m \in {"mess1", "mess2"}}

\* mess_name in key, for the keys FeedbackService builds: they end with the
\* name of their mess.
KeyMentions(key, mess_name) == key = FeedbackKey(mess_name)

\* A thread calls cache.get(key, ttl).
StartGet ==
    \E t \in Threads, key \in FeedbackKeys, ttl \in {MaxTtl} :
        /\ thread[t].pc = "idle"
        /\ thread' = [thread EXCEPT ![t] =
               CacheCall([NoThread EXCEPT !.req = "get"], "get", key, PyNone, ttl)]
        /\ UNCHANGED <<store, lock, notifications>>
        /\ ThreadFrame

\* A thread calls cache.set(key, value).
StartSet ==
    \E t \in Threads, key \in FeedbackKeys, value \in Values \ {PyNone} :
        /\ thread[t].pc = "idle"
        /\ thread' = [thread EXCEPT ![t] =
               CacheCall([NoThread EXCEPT !.req = "set"], "set", key, value, 0)]
        /\ UNCHANGED <<store, lock, notifications>>
        /\ ThreadFrame

\* A thread calls cache.clear(key) or cache.clear().
StartClear ==
    \E t \in Threads, key \in FeedbackKeys \cup {None} :
        /\ thread[t].pc = "idle"
        /\ thread' = [thread EXCEPT ![t] =
               CacheCall([NoThread EXCEPT !.req = "clear"], "clear", key, PyNone, 0)]
        /\ UNCHANGED <<store, lock, notifications>>
        /\ ThreadFrame

\* A thread calls cache.cleanup_expired(ttl).
StartCleanupExpired ==
    \E t \in Threads, ttl \in {MaxTtl} :
        /\ thread[t].pc = "idle"
        /\ thread' = [thread EXCEPT ![t] =
               CacheCall([NoThread EXCEPT !.req = "cleanup_expired"],
                         "cleanup_expired", None, PyNone, ttl)]
        /\ UNCHANGED <<store, lock, notifications>>
        /\ ThreadFrame

\* FeedbackService.clear_feedback_cache(mess_name=None): without a mess name
\* the whole cache is cleared, with one the keys of the store are listed
\* first.
StartClearFeedbackCache ==
    \E t \in Threads, mess_name \in {None, "mess1", "mess2"} :
        LET th == [NoThread EXCEPT !.req = "clear_feedback_cache",
                                   !.arg = mess_name]
        IN  /\ thread[t].pc = "idle"
            /\ thread' = [thread EXCEPT ![t] =
                   IF mess_name # None THEN [th EXCEPT !.pc = "keys"]
                   ELSE CacheCall(th, "clear", None, PyNone, 0)]
            /\ UNCHANGED <<store, lock, notifications>>
            /\ ThreadFrame

\* clear_feedback_cache: the list comprehension opens the iteration over
\* cache_manager.feedback_cache._store.keys(); the lock is not taken.
KeysIter ==
    \E t \in Threads :
        /\ thread[t].pc = "keys"
        /\ thread' = [thread EXCEPT ![t].size = Cardinality(DOMAIN store),
                                    ![t].pc = "iter"]
        /\ UNCHANGED <<store, lock, notifications>>
        /\ ThreadFrame

\* clear_feedback_cache: one step of the iteration.  When the dict has
\* changed size since the iteration began, the step raises RuntimeError;
\* otherwise it yields a key not yet seen, kept when it names the mess, or
\* ends the iteration.
IterNext ==
    \E t \in Threads :
        LET th == thread[t]
            rest == DOMAIN store \ th.seen
        IN  /\ th.pc = "iter"
            /\ \/ /\ Cardinality(DOMAIN store) # th.size
                  /\ thread' = [thread EXCEPT ![t].raised = TRUE,
                                              ![t].pc = "done"]
               \/ /\ Cardinality(DOMAIN store) = th.size
                  /\ rest # {}
                  /\ \E key \in rest :
                         thread' = [thread EXCEPT
                             ![t].seen = @ \cup {key},
                             ![t].keys_to_clear =
                                 IF KeyMentions(key, th.arg) THEN @ \cup {key}
                                 ELSE @]
               \/ /\ Cardinality(DOMAIN store) = th.size
                  /\ rest = {}
                  /\ thread' = [thread EXCEPT ![t] = NextClear(th)]
            /\ UNCHANGED <<store, lock, notifications>>
            /\ ThreadFrame

(***************************************************************************)
(* The cache-aside read path of MenuService.get_menu, thread by thread     *)
(***************************************************************************)
\* A request thread calls get_menu(): the key is built and the cache asked.
StartGetMenu ==
    \E t \in Threads :
        LET current_meal == get_current_meal(<<>>, minuteOfDay)
            cache_key == "menu_" \o current_meal \o "_today"
        IN  /\ thread[t].pc = "idle"
            /\ thread' = [thread EXCEPT ![t] =
                   CacheCall([NoThread EXCEPT !.req = "get_menu",
                                              !.arg = current_meal],
                             "get", cache_key, PyNone, MENU_TTL)]
            /\ UNCHANGED <<store, lock, notifications>>
            /\ ThreadFrame

\* get_menu: menu_data = cls._fetch_menu_from_db(date, current_meal), with
\* the store answering or failing at one of its calls, then
\* menu_cache.set(cache_key, menu_data).  No rating has been given, so no
\* item is top rated.
FetchMenuFromDb ==
    \E t \in Threads, failAt \in 0..MaxStoreCalls :
        LET th == thread[t]
            f == fetch_menu_from_db(<<>>, th.arg, failAt, None)
        IN  /\ th.pc = "fetch"
            /\ th.req = "get_menu"
            /\ thread' = [thread EXCEPT ![t] =
                   CacheCall([th EXCEPT !.data = f.ret, !.raised = f.raised],
                             "set", th.key, f.ret, 0)]
            /\ UNCHANGED <<store, lock, notifications>>
            /\ ThreadFrame

(***************************************************************************)
(* NotificationService.get_notifications and send_notification             *)
(***************************************************************************)
Recipients == {"admin"}
Messages == {"m1", "m2"}

\* SELECT message, created_at FROM notifications WHERE recipient_type = %s
\* AND created_at >= NOW() - INTERVAL 7 DAY: every row is of this week.
NotificationRows(recipient_type) ==
    [rows |-> {r.message : r \in {x \in notifications :
                                      x.recipient_type = recipient_type}}]

\* A request thread calls get_notifications(recipient_type).  must holds
\* the notifications whose send_notification had returned by then.
StartGetNotifications ==
    \E t \in Threads, recipient_type \in Recipients :
        LET cache_key == "notifications_" \o recipient_type
            th == [NoThread EXCEPT
                      !.req = "get_notifications",
                      !.arg = recipient_type,
                      !.must = {r.message : r \in
                                   {x \in notifications :
                                       /\ x.recipient_type = recipient_type
                                       /\ x.acked}}]
        IN  /\ thread[t].pc = "idle"
            /\ thread' = [thread EXCEPT ![t] =
                   CacheCall(th, "get", cache_key, PyNone, NOTIFICATION_TTL)]
            /\ UNCHANGED <<store, lock, notifications>>
            /\ ThreadFrame

\* get_notifications: the SELECT, then notification_cache.set(cache_key,
\* data); when get_db_cursor (failAt = 1) or execute (failAt = 2) raises, []
\* is cached and returned instead.
QueryNotifications ==
    \E t \in Threads, failAt \in 0..3 :
        LET th == thread[t]
            ok == failAt \notin {1, 2}
            data == IF ok THEN NotificationRows(th.arg) ELSE NoRows
        IN  /\ th.pc = "fetch"
            /\ th.req = "get_notifications"
            /\ thread' = [thread EXCEPT ![t] =
                   CacheCall([th EXCEPT !.data = data, !.raised = ~ok,
                                        !.failAt = failAt],
                             "set", th.key, data, 0)]
            /\ UNCHANGED <<store, lock, notifications>>
            /\ ThreadFrame

\* A thread calls send_notification(message, recipient_type).
StartSendNotification ==
    \E t \in Threads, recipient_type \in Recipients :
        \E message \in Messages \ {r.message : r \in notifications} :
            /\ thread[t].pc = "idle"
            /\ \A u \in Threads : thread[u].message # message
            /\ thread' = [thread EXCEPT ![t] =
                   [NoThread EXCEPT !.req = "send_notification",
                                    !.arg = recipient_type,
                                    !.message = message,
                                    !.pc = "insert"]]
            /\ UNCHANGED <<store, lock, notifications>>
            /\ ThreadFrame

\* send_notification: INSERT and commit, then
\* clear_notifications_cache(recipient_type); when get_db_cursor
\* (failAt = 1) or execute (failAt = 2) raises, nothing is written and False
\* is returned.
InsertNotification ==
    \E t \in Threads, failAt \in 0..3 :
        LET th == [thread[t] EXCEPT !.failAt = failAt]
            ok == failAt \notin {1, 2}
        IN  /\ th.pc = "insert"
            /\ th.req = "send_notification"
            /\ notifications' =
                   IF ok
                   THEN notifications \cup
                            {[message |-> th.message,
                              recipient_type |-> th.arg, acked |-> FALSE]}
                   ELSE notifications
            /\ thread' = [thread EXCEPT ![t] =
                   IF ok
                   THEN CacheCall(th, "clear", "notifications_" \o th.arg,
                                  PyNone, 0)
                   ELSE [th EXCEPT !.raised = TRUE, !.pc = "done"]]
            /\ UNCHANGED <<store, lock>>
            /\ ThreadFrame

(***************************************************************************)
(* send_admin_notification_job beside the readers of the notifications     *)
(***************************************************************************)
\* A scheduler thread enters send_admin_notification_job, and
\* create_admin_notification_from_critical_feedback returns the digest (held
\* in data): with an empty one the job returns at once.
StartNotifyJob ==
    \E t \in Threads, messages \in SUBSET Digests :
        /\ thread[t].pc = "idle"
        /\ \A u \in Threads : thread[u].req # "send_admin_notification_job"
        /\ thread' = [thread EXCEPT ![t] =
               [NoThread EXCEPT !.req = "send_admin_notification_job",
                                !.arg = "admin",
                                !.data = [rows |-> messages],
                                !.pc = IF messages = {} THEN "done"
                                       ELSE "insert"]]
        /\ UNCHANGED <<store, lock, notifications>>
        /\ ThreadFrame

\* send_admin_notification_job: the INSERT of every message and the commit,
\* then, after the with block, clear_notifications_cache('admin').  When
\* get_db_cursor (failAt = 1) or execute (failAt = 2) raises nothing is
\* written; when the closing of the cursor raises (failAt = 3) the rows are
\* committed; in all three the except clause logs, and the cache is not
\* cleared.
InsertDigest ==
    \E t \in Threads, failAt \in 0..3 :
        LET th == [thread[t] EXCEPT !.failAt = failAt]
        IN  /\ th.pc = "insert"
            /\ th.req = "send_admin_notification_job"
            /\ notifications' =
                   IF failAt \in {0, 3}
                   THEN notifications \cup
                            {[message |-> m, recipient_type |-> "admin",
                              acked |-> FALSE] : m \in th.data.rows}
                   ELSE notifications
            /\ thread' = [thread EXCEPT ![t] =
                   IF failAt = 0
                   THEN CacheCall(th, "clear", "notifications_" \o "admin",
                                  PyNone, 0)
                   ELSE [th EXCEPT !.raised = TRUE, !.pc = "done"]]
            /\ UNCHANGED <<store, lock>>
            /\ ThreadFrame

(***************************************************************************)
(* LLMService: the digest of the critical feedback                         *)
(*                                                                         *)
(* A text is the sequence of its characters; a markup tag or a mess's      *)
(* display name stands as one element.                                     *)
(***************************************************************************)
Whitespace == {" ", "\n"}

\* str.strip()
Strip(text) ==
    IF text = <<>> THEN text
    ELSE IF text[1] \notin Whitespace /\ text[Len(text)] \notin Whitespace
    THEN text
    ELSE LET inked == {i \in 1..Len(text) : text[i] \notin Whitespace}
         IN  IF inked = {} THEN <<>>
             ELSE SubSeq(text,
                         CHOOSE i \in inked : \A j \in inked : i <= j,
                         CHOOSE i \in inked : \A j \in inked : i >= j)

\* text[:n]
Truncated(text, n) == SubSeq(text, 1, IF Len(text) < n THEN Len(text) ELSE n)

\* feedback_text[:400], and the longest summary kept whole
FALLBACK_CHARS == 400

MESS_NAME_MAP == [mess1 |-> "Food Sutra", mess2 |-> "Shakti"]

\* LLMService.summarize_feedback_text.  llm is what the call of the model
\* comes to: the configuration lacks the key or the platform, call_llm
\* raises, or call_llm returns its content stripped.
summarize_feedback_text(feedback_text, llm) ==
    IF Strip(feedback_text) = <<>> THEN <<>>
    ELSE IF llm.kind \in {"unconfigured", "raises"}
    THEN Truncated(feedback_text, FALLBACK_CHARS)
    ELSE LET summary == Strip(llm.content)
         IN  IF Len(summary) > FALLBACK_CHARS
             THEN Truncated(summary, FALLBACK_CHARS - 3) \o <<".", ".", ".">>
             ELSE summary

RECURSIVE BreakLines(_, _)
\* Every newline of the text replaced by the tag and what follows it.
BreakLines(text, tag) ==
    IF \A i \in 1..Len(text) : text[i] # "\n" THEN text
    ELSE IF Head(text) = "\n" THEN tag \o BreakLines(Tail(text), tag)
    ELSE <<Head(text)>> \o BreakLines(Tail(text), tag)

\* markdown.markdown(summary, extensions=["nl2br"]) of a text without
\* markup: one paragraph, a line break at every newline; when the
\* conversion raises, summary.replace('\n', '<br>').
Rendered(summary, markdown_ok) ==
    IF ~markdown_ok THEN BreakLines(summary, <<"<br>">>)
    ELSE IF Strip(summary) = <<>> THEN <<>>
    ELSE <<"<p>">> \o BreakLines(Strip(summary), <<"<br />", "\n">>)
             \o <<"</p>">>

\* f"<h3>{mess_name}</h3>\n{summary_html}"
Section(mess_key, summary_html) ==
    <<"<h3>", MESS_NAME_MAP[mess_key], "</h3>", "\n">> \o summary_html

\* The mutant of SectionOf: the fallback takes the whole text.
SectionOf_whole_text(mess_key, feedback_text, llm, markdown_ok) ==
    IF Strip(feedback_text) = <<>> THEN <<>>
    ELSE LET summary == summarize_feedback_text(feedback_text, llm)
             kept == IF Strip(summary) = <<>>
                     THEN feedback_text
                     ELSE summary
         IN  <<Section(mess_key, Rendered(kept, markdown_ok))>>

\* The body of the loop of create_admin_notification_from_critical_feedback
\* for one mess: what it appends to notifications.
SectionOf(mess_key, feedback_text, llm, markdown_ok) ==
    IF Strip(feedback_text) = <<>> THEN <<>>
    ELSE LET summary == summarize_feedback_text(feedback_text, llm)
             kept == IF Strip(summary) = <<>>
                     THEN Truncated(feedback_text, FALLBACK_CHARS)
                     ELSE summary
         IN  <<Section(mess_key, Rendered(kept, markdown_ok))>>

\* LLMService.create_admin_notification_from_critical_feedback over the
\* texts of get_critical_feedback_texts_for_llm, in the order of its dict.
create_admin_notification_from_critical_feedback(combined_texts, llm, markdown_ok) ==
    SectionOf("mess1", combined_texts["mess1"], llm["mess1"], markdown_ok)
        \o SectionOf("mess2", combined_texts["mess2"], llm["mess2"],
                     markdown_ok)

\* A text of n characters.
TextOf(n) == [i \in 1..n |-> "a"]

\* The combined critical feedback of a mess: none, one comment, two
\* comments joined by a newline, and texts of FALLBACK_CHARS characters and
\* of one more.
FeedbackTexts ==
    {<<>>, <<"b", "a", "d">>, <<"a", "\n", "b">>,
     TextOf(FALLBACK_CHARS), TextOf(FALLBACK_CHARS + 1)}

\* What the summarizer comes to: not configured, raising, or returning
\* nothing, blanks, a summary, or more than FALLBACK_CHARS characters.
LlmOutcomes ==
    {[kind |-> "unconfigured", content |-> <<>>],
     [kind |-> "raises", content |-> <<>>],
     [kind |-> "returns", content |-> <<>>],
     [kind |-> "returns", content |-> <<" ", "\n">>],
     [kind |-> "returns", content |-> <<"o", "k">>],
     [kind |-> "returns", content |-> TextOf(FALLBACK_CHARS + 1)]}

NoDigest == [op |-> "none", combined_texts |-> <<>>, llm |-> <<>>,
             markdown_ok |-> TRUE, ret |-> <<>>]

DigestFrame ==
    UNCHANGED <<threadVars, managerVars, jobs, alertJob,
                high_low_alerts_cache, waste_summary, feedback, cleanup_log,
                timeVars, cacheVars, menuVars, serviceVars>>

\* The notification job asks for the digest.
CreateAdminNotification ==
    \E combined_texts \in [Messes -> FeedbackTexts],
       llm \in [Messes -> LlmOutcomes], markdown_ok \in BOOLEAN :
        /\ digest.op = "none"
        /\ digest' =
               [op |-> "create_admin_notification_from_critical_feedback",
                combined_texts |-> combined_texts,
                llm |-> llm,
                markdown_ok |-> markdown_ok,
                ret |-> create_admin_notification_from_critical_feedback(
                            combined_texts, llm, markdown_ok)]
        /\ DigestFrame

\* The call has returned.
DigestReturn ==
    /\ digest.op # "none"
    /\ digest' = NoDigest
    /\ DigestFrame

(***************************************************************************)
(* FeedbackService: today's critical feedback                              *)
(***************************************************************************)
\* The comments of the modelled feedback: none, a complaint with a blank
\* after it, and a praise.
Comments == {<<>>, <<"n", "a", "i", "l", " ">>, <<"o", "k">>}

\* classify_feedback(feedback_text): the label the trained classifier gives
\* to the modelled comments.
classify_feedback(feedback_text) ==
    IF feedback_text = <<"n", "a", "i", "l">> THEN "Critical"
    ELSE "Non-Critical"

\* The feedback rows the table may hold.
MaxRows == 3

\* FeedbackService.submit_feedback for one rated item: a summary row and
\* its detail row are inserted in one transaction, stamped with the day,
\* and the mess's keys of the feedback cache are cleared; when the store
\* fails nothing is inserted and nothing is cleared.
SubmitFeedback ==
    \E mess \in Messes, meal \in {"Lunch", "Snacks"}, comments \in Comments,
       ok \in BOOLEAN :
        /\ digest.op = "none"
        /\ Cardinality(feedback) < MaxRows
        /\ feedback' =
               IF ok
               THEN feedback \cup
                        {[detail_id |-> Cardinality(feedback) + 1,
                          mess |-> mess, meal |-> meal, rating |-> 3,
                          feedback_date |-> today, food_item |-> "Dal",
                          comments |-> comments, created_at |-> today]}
               ELSE feedback
        /\ feedback_cache' =
               IF ok
               THEN [k \in DOMAIN feedback_cache \ {FeedbackKey(mess)} |->
                        feedback_cache[k]]
               ELSE feedback_cache
        /\ UNCHANGED <<threadVars, rating_cache, waste_cache,
                       notification_cache, feature_toggle_cache, poll_cache,
                       mgr, jobs, alertJob, high_low_alerts_cache,
                       waste_summary, cleanup_log, digest,
                       timeVars, cacheVars, menuVars, serviceVars>>

\* SELECT detail_id, d.feedback_id, food_item, rating, comments, created_at
\* ... WHERE DATE(created_at) = %s AND s.mess = %s AND meal = %s ORDER BY
\* created_at ASC: the rows as dictionaries of the selected columns, in the
\* order of their insertion.
RECURSIVE SelectedRows(_)
SelectedRows(found) ==
    IF found = {} THEN <<>>
    ELSE LET r == CHOOSE x \in found :
                      \A y \in found : x.detail_id <= y.detail_id
         IN  <<[detail_id |-> r.detail_id, feedback_id |-> r.detail_id,
                food_item |-> r.food_item, rating |-> r.rating,
                comments |-> r.comments, created_at |-> r.created_at]>>
             \o SelectedRows(found \ {r})

TodaysFeedback(today_date, mess, meal) ==
    SelectedRows({r \in feedback : /\ r.created_at = today_date
                                   /\ r.mess = mess
                                   /\ r.meal = meal})

\* row.get(key) or ''
RowGet(row, key) == IF key \in DOMAIN row THEN row[key] ELSE ""

\* for row in rows: the loop over the rows of one mess, which assigns the
\* function's meal variable from each row and appends the critical ones.
RECURSIVE AfterRows(_, _, _)
AfterRows(rows, meal, target_list) ==
    IF rows = <<>> THEN [meal |-> meal, target_list |-> target_list]
    ELSE LET row == Head(rows)
             text == Strip(RowGet(row, "comments"))
             food_item == RowGet(row, "food_item")
             row_meal == RowGet(row, "meal")
         IN  AfterRows(
                 Tail(rows), row_meal,
                 IF text # <<>> /\ classify_feedback(text) = "Critical"
                 THEN Append(target_list,
                             [comments |-> text, food_item |-> food_item,
                              meal |-> row_meal])
                 ELSE target_list)

\* FeedbackService.get_today_critical_feedbacks().  failAt is the store
\* call that raises: 1 opening the cursor, 2 and 3 the queries of mess1
\* and of mess2, 4 closing the cursor, 0 none; the exception is logged and
\* the lists are returned as far as they were filled.
get_today_critical_feedbacks(failAt) ==
    LET meal == get_current_meal(<<>>, minuteOfDay)
        today_date == today
        first == IF failAt \in {1, 2}
                 THEN [meal |-> meal, target_list |-> <<>>]
                 ELSE AfterRows(TodaysFeedback(today_date, "mess1", meal),
                                meal, <<>>)
        second == IF failAt \in {1, 2, 3}
                  THEN [meal |-> first.meal, target_list |-> <<>>]
                  ELSE AfterRows(TodaysFeedback(today_date, "mess2",
                                                first.meal),
                                 first.meal, <<>>)
    IN  [mess1 |-> first.target_list, mess2 |-> second.target_list,
         logged_error |-> failAt # 0]

\* The notification job asks for today's critical feedback.
GetTodayCriticalFeedbacks ==
    \E failAt \in 0..4 :
        /\ digest.op = "none"
        /\ digest' = [NoDigest EXCEPT
                         !.op = "get_today_critical_feedbacks",
                         !.ret = get_today_critical_feedbacks(failAt)]
        /\ DigestFrame

(***************************************************************************)
(* Specifications                                                          *)
(***************************************************************************)
TimeIdle == minuteOfDay = 0 /\ timeCall = NoTimeCall
CacheIdle == store = EmptyStore /\ now = 0 /\ lastOp = NoOp /\ prevOp = NoOp
MenuIdle ==
    /\ today = FirstDay
    /\ temporary_menu = {}
    /\ menu = {}
    /\ fetch = NoFetch
ServiceIdle ==
    /\ non_veg_menu = {}
    /\ menu_cache = EmptyStore
    /\ non_veg_cache = EmptyStore
    /\ payment_cache = EmptyStore
    /\ svc = NoCall
ThreadIdle ==
    /\ lock = NoLock
    /\ thread = [t \in Threads |-> NoThread]
    /\ notifications = {}
ManagerIdle ==
    /\ rating_cache = EmptyStore
    /\ feedback_cache = EmptyStore
    /\ waste_cache = EmptyStore
    /\ notification_cache = EmptyStore
    /\ feature_toggle_cache = EmptyStore
    /\ poll_cache = EmptyStore
    /\ mgr = NoManagerCall
SchedIdle ==
    /\ jobs = NoJobs
    /\ alertJob = NoAlertJob
    /\ high_low_alerts_cache = NoAlerts
    /\ waste_summary = {}
    /\ feedback = {}
    /\ cleanup_log = <<>>
    /\ digest = NoDigest

\* The time derivations, from every minute of the day.
InitTime ==
    /\ minuteOfDay \in 0..(MinutesPerDay - 1)
    /\ timeCall = NoTimeCall
    /\ CacheIdle
    /\ MenuIdle
    /\ ServiceIdle
    /\ ThreadIdle
    /\ ManagerIdle
    /\ SchedIdle

NextTime ==
    \/ CallGetCurrentMeal
    \/ CallGetCurrentMealAt
    \/ CallSecondsUntilNextMeal
    \/ CallIsOddWeek

SpecTime == InitTime /\ [][NextTime]_vars

\* One TTLCache instance under any sequence of its operations.
InitCache ==
    /\ TimeIdle
    /\ CacheIdle
    /\ MenuIdle
    /\ ServiceIdle
    /\ ThreadIdle
    /\ ManagerIdle
    /\ SchedIdle

NextCache == Get \/ Set \/ Clear \/ CleanupExpired \/ Advance

SpecCache == InitCache /\ [][NextCache]_vars

\* Menu resolution at any time of the modelled days, over a schedule that
\* may lack the entries of one meal, with the override of the current slot
\* set and removed by the admin.
InitMenu ==
    /\ minuteOfDay \in ClockPoints
    /\ timeCall = NoTimeCall
    /\ CacheIdle
    /\ today \in FirstDay..MaxDay
    /\ temporary_menu = {}
    /\ \E missing \in MEALS \cup {None} :
           menu = {r \in FullMenu : r.meal # missing}
    /\ fetch = NoFetch
    /\ ServiceIdle
    /\ ThreadIdle
    /\ ManagerIdle
    /\ SchedIdle

NextMenu == FetchMenu \/ FetchReturn \/ UpdateVegMenu \/ RestoreDefaultVegMenu

SpecMenu == InitMenu /\ [][NextMenu]_vars

\* The cached read paths of MenuService from Snacks to Dinner of one day,
\* with or without an override for tonight's Dinner, over a schedule of one
\* dish per slot.
InitService ==
    /\ minuteOfDay = 16 * 60
    /\ timeCall = NoTimeCall
    /\ CacheIdle
    /\ today = FirstDay
    /\ temporary_menu \in
           {{}, {[week_type |-> WeekType(FirstDay), day |-> DayName(FirstDay),
                  meal |-> "Dinner", food_item |-> "A", created_at |-> FirstDay]}}
    /\ menu = {r \in FullMenu : r.food_item = r.week_type}
    /\ fetch = NoFetch
    /\ non_veg_menu = ChickenMenu
    /\ menu_cache = EmptyStore
    /\ non_veg_cache = EmptyStore
    /\ payment_cache = EmptyStore
    /\ svc = NoCall
    /\ ThreadIdle
    /\ ManagerIdle
    /\ SchedIdle

NextService == GetMenu \/ GetNonVegMenu \/ GetAmountData \/ ServiceReturn \/ Tick

SpecService == InitService /\ [][NextService]_vars

\* The menu cache in front of menu resolution through the hours of one
\* afternoon and evening, while the admin sets and removes the override of
\* the current slot.
InitMenuCache ==
    /\ minuteOfDay = 16 * 60
    /\ timeCall = NoTimeCall
    /\ CacheIdle
    /\ today = FirstDay
    /\ temporary_menu = {}
    /\ menu = {r \in FullMenu : r.food_item = r.week_type}
    /\ fetch = NoFetch
    /\ ServiceIdle
    /\ ThreadIdle
    /\ ManagerIdle
    /\ SchedIdle

NextMenuCache ==
    \/ GetMenu
    \/ ServiceReturn
    \/ WaitAnHour
    \/ UpdateVegMenu
    \/ RestoreDefaultVegMenu

SpecMenuCache == InitMenuCache /\ [][NextMenuCache]_vars

\* The menu cache in front of a store that fails and recovers, half hour
\* by half hour, with clear_menu_cache called at any time.
InitNegative ==
    /\ minuteOfDay = 16 * 60
    /\ timeCall = NoTimeCall
    /\ CacheIdle
    /\ today = FirstDay
    /\ temporary_menu = {}
    /\ menu = {r \in FullMenu : r.food_item = r.week_type}
    /\ fetch = NoFetch
    /\ ServiceIdle
    /\ ThreadIdle
    /\ ManagerIdle
    /\ SchedIdle

NextNegative ==
    \/ GetMenu
    \/ ServiceReturn
    \/ HalfAnHourPasses
    \/ ClearMenuCache

SpecNegative == InitNegative /\ [][NextNegative]_vars

\* The menu cache over a midnight: get_menu with the date omitted, from
\* 23:00 of the first day on.
InitNight ==
    /\ minuteOfDay = 23 * 60
    /\ timeCall = NoTimeCall
    /\ CacheIdle
    /\ today = FirstDay
    /\ temporary_menu = {}
    /\ menu = {r \in FullMenu : r.food_item = r.week_type}
    /\ fetch = NoFetch
    /\ ServiceIdle
    /\ ThreadIdle
    /\ ManagerIdle
    /\ SchedIdle

NextNight ==
    \/ GetMenuOfMeal
    \/ ServiceReturn
    \/ NightPasses

SpecNight == InitNight /\ [][NextNight]_vars

\* The feedback of the day and the job that gathers the critical comments,
\* five minutes before the snacks end.
InitCritical ==
    /\ minuteOfDay = 18 * 60 + 25
    /\ timeCall = NoTimeCall
    /\ CacheIdle
    /\ MenuIdle
    /\ ServiceIdle
    /\ ThreadIdle
    /\ ManagerIdle
    /\ SchedIdle

NextCritical ==
    \/ SubmitFeedback
    \/ GetTodayCriticalFeedbacks
    \/ DigestReturn

SpecCritical == InitCritical /\ [][NextCritical]_vars

\* One TTLCache instance, the feedback cache, called by two threads at
\* once.
InitLock ==
    /\ TimeIdle
    /\ CacheIdle
    /\ MenuIdle
    /\ ServiceIdle
    /\ ThreadIdle
    /\ ManagerIdle
    /\ SchedIdle

NextLock ==
    \/ StartGet
    \/ StartSet
    \/ StartClear
    \/ StartCleanupExpired
    \/ StartClearFeedbackCache
    \/ KeysIter
    \/ IterNext
    \/ CleanupTime
    \/ Acquire
    \/ GetRead
    \/ GetCheck
    \/ SetStore
    \/ ClearStore
    \/ CleanupScan
    \/ Release
    \/ Return
    \/ Advance

SpecLock == InitLock /\ [][NextLock]_vars

\* Two request threads in get_menu() at Snacks time over an unchanged
\* schedule; store is the menu cache.
InitRace ==
    /\ minuteOfDay = 16 * 60
    /\ timeCall = NoTimeCall
    /\ CacheIdle
    /\ today = FirstDay
    /\ temporary_menu = {}
    /\ menu = {r \in FullMenu : r.food_item = r.week_type}
    /\ fetch = NoFetch
    /\ ServiceIdle
    /\ ThreadIdle
    /\ ManagerIdle
    /\ SchedIdle

NextRace ==
    \/ StartGetMenu
    \/ FetchMenuFromDb
    \/ Acquire
    \/ GetRead
    \/ GetCheck
    \/ SetStore
    \/ Release
    \/ Return
    \/ Advance

SpecRace == InitRace /\ [][NextRace]_vars

\* Request threads reading and sending notifications; store is the
\* notification cache.
InitInvalidate ==
    /\ TimeIdle
    /\ CacheIdle
    /\ MenuIdle
    /\ ServiceIdle
    /\ ThreadIdle
    /\ ManagerIdle
    /\ SchedIdle

NextInvalidate ==
    \/ StartGetNotifications
    \/ QueryNotifications
    \/ StartSendNotification
    \/ InsertNotification
    \/ Acquire
    \/ GetRead
    \/ GetCheck
    \/ SetStore
    \/ ClearStore
    \/ Release
    \/ Return
    \/ Advance

SpecInvalidate == InitInvalidate /\ [][NextInvalidate]_vars

\* The override of a Saturday's Snacks over a fortnight: the admin sets and
\* removes it, the daily cleanup job runs or fails, and menus are resolved
\* for the day itself and for the same weekday two weeks on.
InitOverride ==
    /\ minuteOfDay = 16 * 60
    /\ timeCall = NoTimeCall
    /\ CacheIdle
    /\ today = FirstDay
    /\ temporary_menu = {}
    /\ menu = {r \in FullMenu : r.food_item = r.week_type}
    /\ fetch = NoFetch
    /\ ServiceIdle
    /\ ThreadIdle
    /\ ManagerIdle
    /\ SchedIdle

NextOverride ==
    \/ FetchMenu
    \/ FetchReturn
    \/ UpdateVegMenu
    \/ RestoreDefaultVegMenu
    \/ cleanup_old_menu
    \/ FortnightPasses

SpecOverride == InitOverride /\ [][NextOverride]_vars

\* The nine caches of cache_manager under sets, clears and resets.
InitManager ==
    /\ TimeIdle
    /\ CacheIdle
    /\ MenuIdle
    /\ ServiceIdle
    /\ ThreadIdle
    /\ ManagerIdle
    /\ SchedIdle

NextManager == ManagerSet \/ ManagerClear \/ ClearAllCaches \/ ManagerReturn

SpecManager == InitManager /\ [][NextManager]_vars

\* Two days of one mess: the admin sets the override of the afternoon's
\* Snacks, the mess staff adds a non-veg item, the cleanup runs or fails,
\* and midnight passes.
InitCleanup ==
    /\ minuteOfDay = 16 * 60
    /\ timeCall = NoTimeCall
    /\ CacheIdle
    /\ MenuIdle
    /\ ServiceIdle
    /\ ThreadIdle
    /\ ManagerIdle
    /\ SchedIdle

NextCleanup ==
    \/ UpdateVegMenu
    \/ AddNonVegMenu
    \/ Midnight
    \/ cleanup_old_menu

SpecCleanup == InitCleanup /\ [][NextCleanup]_vars

\* The same two days with the pages and handlers that derive the meal, the
\* week parity and the time to the next meal.
InitHelpers ==
    /\ minuteOfDay = 16 * 60
    /\ timeCall = NoTimeCall
    /\ CacheIdle
    /\ MenuIdle
    /\ ServiceIdle
    /\ ThreadIdle
    /\ ManagerIdle
    /\ SchedIdle

NextHelpers ==
    \/ UpdateVegMenu
    \/ AddNonVegMenu
    \/ Midnight
    \/ HelpersGetCurrentMeal
    \/ CallGetCurrentMeal
    \/ CallGetCurrentMealAt
    \/ CallSecondsUntilNextMeal
    \/ CallIsOddWeek
    \/ TimeReturn

SpecHelpers == InitHelpers /\ [][NextHelpers]_vars

\* The scheduler with its six jobs, each triggered at any time, over a
\* store without waste or feedback records.
InitScheduler ==
    /\ TimeIdle
    /\ CacheIdle
    /\ MenuIdle
    /\ ServiceIdle
    /\ ThreadIdle
    /\ ManagerIdle
    /\ SchedIdle

NextScheduler ==
    \/ Trigger
    \/ RunCleanupJob
    \/ RunNotifyJob
    \/ BeginAlerts
    \/ AlertsOpen
    \/ AlertsWaste
    \/ AlertsFeedback
    \/ AlertsAssign
    \/ AlertsReturn

SpecScheduler == InitScheduler /\ [][NextScheduler]_vars

\* The alerts job, triggered at any time, while waste entries and ratings
\* come in.
InitAlerts ==
    /\ TimeIdle
    /\ CacheIdle
    /\ MenuIdle
    /\ ServiceIdle
    /\ ThreadIdle
    /\ ManagerIdle
    /\ SchedIdle

NextAlerts ==
    \/ TriggerAlerts
    \/ BeginAlerts
    \/ AlertsOpen
    \/ AlertsWaste
    \/ AlertsFeedback
    \/ AlertsAssign
    \/ AlertsReturn
    \/ RecordWaste
    \/ SubmitRating

SpecAlerts == InitAlerts /\ [][NextAlerts]_vars

\* The notification job and request threads that read the admin's
\* notifications; store is the notification cache.
InitDigest ==
    /\ TimeIdle
    /\ CacheIdle
    /\ MenuIdle
    /\ ServiceIdle
    /\ ThreadIdle
    /\ ManagerIdle
    /\ SchedIdle

NextDigest ==
    \/ StartGetNotifications
    \/ QueryNotifications
    \/ StartNotifyJob
    \/ InsertDigest
    \/ Acquire
    \/ GetRead
    \/ GetCheck
    \/ SetStore
    \/ ClearStore
    \/ Release
    \/ Return
    \/ Advance

SpecDigest == InitDigest /\ [][NextDigest]_vars

\* The digest of the critical feedback, for every text and every outcome
\* of the summarizer.
InitSummary ==
    /\ TimeIdle
    /\ CacheIdle
    /\ MenuIdle
    /\ ServiceIdle
    /\ ThreadIdle
    /\ ManagerIdle
    /\ SchedIdle

NextSummary ==
    \/ CreateAdminNotification
    \/ DigestReturn

SpecSummary == InitSummary /\ [][NextSummary]_vars

\* The notification jobs on the wall clock of one day, from 00:00.
InitTriggers ==
    /\ TimeIdle
    /\ CacheIdle
    /\ MenuIdle
    /\ ServiceIdle
    /\ ThreadIdle
    /\ ManagerIdle
    /\ SchedIdle

NextTriggers ==
    \/ CronTrigger
    \/ MinutePasses
    \/ RunNotifyJob

SpecTriggers == InitTriggers /\ [][NextTriggers]_vars

C12_TtlEndsWhereTheMealChanges ==
    timeCall.op = "seconds_until_next_meal" =>
        LET m == minuteOfDay
            n == timeCall.seconds \div 60
            active == get_current_meal(<<>>, m)
        IN  /\ \A j \in m..(m + n - 1) : get_current_meal(<<>>, j) = active
            /\ get_current_meal(<<>>, (m + n) % MinutesPerDay) # active

\* The week block of a date, counted from the epoch: the q with
\* 7q <= date < 7q + 7.
WeekBlock(date) ==
    CHOOSE q \in (0 - MaxWeeks - 1)..(MaxWeeks + 1) :
        7 * q <= date /\ date < 7 * q + 7

\* C19: is_odd_week(d) is true exactly when the number of whole weeks from
\* the epoch to d, floored, is even: Odd at the epoch, the same on all seven
\* days of a block aligned to the epoch, and different from
\* is_odd_week(d + 7) for every date d, also before the epoch.
C19_ParityAlternatesEverySevenDays ==
    (timeCall.op = "is_odd_week" /\ timeCall.date # <<>>) =>
        LET d == timeCall.date[1]
        IN  /\ timeCall.odd <=> (WeekBlock(d) % 2 = 0)
            /\ d = 0 => timeCall.odd
            /\ \A e \in (7 * WeekBlock(d))..(7 * WeekBlock(d) + 6) :
                   is_odd_week(e) = timeCall.odd
            /\ is_odd_week(d + 7) # timeCall.odd

\* C19 witness: the parity of the day before the epoch was asked for, and
\* it is Even.
C19_Witness ==
    /\ timeCall.op = "is_odd_week"
    /\ timeCall.date = <<0 - 1>>
    /\ ~timeCall.odd

\* C20 as stated: the parity of the epoch date plus 7 days equals the parity
\* of the epoch date.
C20_SameParityAfterSevenDays ==
    (timeCall.op = "is_odd_week" /\ timeCall.date = <<7>>) =>
        timeCall.odd = is_odd_week(0)

\* C20 amended: the parity of the epoch date plus 7 days is the opposite of
\* the parity of the epoch date, Even against Odd.
C20_OppositeParityAfterSevenDays ==
    (timeCall.op = "is_odd_week" /\ timeCall.date = <<7>>) =>
        /\ is_odd_week(0)
        /\ ~timeCall.odd

\* C20 witness: the parity of the epoch date plus 7 days was asked for.
C20_Witness ==
    /\ timeCall.op = "is_odd_week"
    /\ timeCall.date = <<7>>
    /\ ~timeCall.odd

C22_NoMealWhereTheWindowsMeet ==
    (/\ timeCall.op = "get_current_meal"
     /\ timeCall.hour = <<>>
     /\ minuteOfDay = 18 * 60 + 30) =>
        timeCall.ret \notin {"Snacks", "Dinner"}

\* C22 amended: there is no minute between Snacks and Dinner at which
\* get_current_meal reports no meal: every call made from 16:00 to 23:59
\* reports Snacks or Dinner, Snacks up to and including 18:30 and Dinner
\* from 18:31, and no call without an hour reports None.
C22_NoMinuteWithoutAMeal ==
    (timeCall.op = "get_current_meal" /\ timeCall.hour = <<>>) =>
        /\ timeCall.ret # None
        /\ minuteOfDay >= 16 * 60 =>
               timeCall.ret = IF minuteOfDay <= 18 * 60 + 30
                              THEN "Snacks" ELSE "Dinner"

\* C22 witness: the call at minute 1111, the first minute after the Snacks
\* window, has answered Dinner.
C22_Witness ==
    /\ timeCall.op = "get_current_meal"
    /\ timeCall.hour = <<>>
    /\ minuteOfDay = 18 * 60 + 31
    /\ timeCall.ret = "Dinner"

\* The smallest boundary of {0, 660, 960, 1110, 1440} after minute m.
NextBoundary(m) ==
    CHOOSE b \in {0, 660, 960, 1110, 1440} :
        /\ b > m
        /\ \A c \in {0, 660, 960, 1110, 1440} : c > m => b <= c

\* C23: for every minute of the day m in 0..1439, seconds_until_next_meal
\* returns 60 * (b - m) where b is the smallest of the boundaries 0, 660,
\* 960, 1110, 1440 strictly greater than m; the result lies between 60 and
\* 39600, and the fallback is never taken (some boundary lies after m).
C23_SecondsToTheNextBoundary ==
    timeCall.op = "seconds_until_next_meal" =>
        LET m == minuteOfDay
        IN  /\ \E i \in 1..Len(boundaries) : boundaries[i] > m
            /\ timeCall.seconds = 60 * (NextBoundary(m) - m)
            /\ 60 <= timeCall.seconds
            /\ timeCall.seconds <= 39600

\* C23 witness: the call in the last minute of the day has answered 60, and
\* the boundary it found is the end of the day.
C23_Witness ==
    /\ timeCall.op = "seconds_until_next_meal"
    /\ minuteOfDay = MinutesPerDay - 1
    /\ timeCall.seconds = 60

\* The day and the meal period of a time.time() value.
MealPeriod(seconds) ==
    <<seconds \div (MinutesPerDay * 60),
      get_current_meal(<<>>, (seconds \div 60) % MinutesPerDay)>>

\* C11: a get_menu call is answered from the cache exactly when the entry
\* under its key was written in the meal period the call is made in: the
\* entry stays valid until the active meal changes and no fixed interval
\* ends it earlier.
C11_MealTransitionInvalidates ==
    [][(svc.op = "none" /\ svc'.op = "get_menu") =>
          LET cache_key == "menu_" \o get_current_meal(<<>>, minuteOfDay)
                           \o "_today"
          IN  svc'.hit <=>
                  /\ cache_key \in DOMAIN menu_cache
                  /\ MealPeriod(menu_cache[cache_key].timestamp)
                         = MealPeriod(ClockSeconds)]_vars

\* What resolution gives for today's active meal on the tables as they are.
ActiveMenuNow ==
    LET meal == get_current_meal(<<>>, minuteOfDay)
    IN  VegItems(TRUE,
                 Select(temporary_menu, WeekType(today), DayName(today), meal),
                 Select(menu, WeekType(today), DayName(today), meal))

\* C15: every get_menu call that returns a menu returns, for the active
\* meal, the items the tables hold at the call: the override as
\* update_veg_menu or restore_default_veg_menu last left it, the default
\* where there is none.
C15_AdminWriteSeenByNextGetMenu ==
    [][(svc.op = "none" /\ svc'.op = "get_menu" /\ svc'.ret.meal # None) =>
          svc'.ret.menus[get_current_meal(<<>>, minuteOfDay)] = ActiveMenuNow]_vars

(***************************************************************************)
(* Properties: TTLCache                                                    *)
(***************************************************************************)
\* The entry an operation found under its key was present and younger than
\* the operation's ttl.
Fresh(o) ==
    /\ o.key \in DOMAIN o.before
    /\ o.at - o.before[o.key].timestamp < o.ttl

\* C2: get(key, ttl) returns the stored value when the key is present and
\* now - insertedAt < ttl; in every other case (key missing, or elapsed >=
\* ttl) it returns absent and the key is not in the store afterwards.
C2_GetServesFreshElseEvicts ==
    lastOp.op = "get" =>
        IF Fresh(lastOp)
        THEN /\ lastOp.ret = lastOp.before[lastOp.key].value
             /\ lastOp.key \in DOMAIN store
        ELSE /\ lastOp.ret = PyNone
             /\ lastOp.key \notin DOMAIN store

\* C2 witness: a get found a stored value aged exactly ttl and answered
\* absent.
C2_Witness ==
    /\ lastOp.op = "get"
    /\ lastOp.ttl > 0
    /\ lastOp.key \in DOMAIN lastOp.before
    /\ lastOp.before[lastOp.key].value # PyNone
    /\ lastOp.at - lastOp.before[lastOp.key].timestamp = lastOp.ttl
    /\ lastOp.ret = PyNone
    /\ lastOp.key \notin DOMAIN store

\* C3: set(k, v) immediately followed by get(k, ttl > 0), no time elapsing,
\* returns v whatever k held before; set overwrites the value and stamps
\* the entry with the time of the set.
C3_SetThenGetReturnsValue ==
    /\ lastOp.op = "set" =>
           /\ lastOp.key \in DOMAIN store
           /\ store[lastOp.key] = [value |-> lastOp.value, timestamp |-> lastOp.at]
    /\ ( /\ lastOp.op = "get"
         /\ lastOp.ttl > 0
         /\ prevOp.op = "set"
         /\ prevOp.key = lastOp.key
         /\ prevOp.at = lastOp.at ) => lastOp.ret = prevOp.value

\* C3 witness: the set replaced an entry holding another value that was
\* already too old for the get that followed, and the get returned the new
\* value.
C3_Witness ==
    /\ lastOp.op = "get"
    /\ lastOp.ttl > 0
    /\ prevOp.op = "set"
    /\ prevOp.key = lastOp.key
    /\ prevOp.at = lastOp.at
    /\ prevOp.key \in DOMAIN prevOp.before
    /\ prevOp.before[prevOp.key].value # prevOp.value
    /\ lastOp.at - prevOp.before[prevOp.key].timestamp >= lastOp.ttl
    /\ prevOp.value # PyNone
    /\ lastOp.ret = prevOp.value

\* C4: two gets of one key inside the TTL window with no set between them
\* return the same value, and a successful get leaves the entry (value and
\* insertion timestamp) as it was: the entry expires ttl after its set, not
\* ttl after the last read.
C4_GetDoesNotRestartTheClock ==
    /\ (lastOp.op = "get" /\ Fresh(lastOp)) => store = lastOp.before
    /\ ( /\ lastOp.op = "get"
         /\ prevOp.op = "get"
         /\ prevOp.key = lastOp.key
         /\ Fresh(prevOp) ) =>
           IF lastOp.at - prevOp.before[prevOp.key].timestamp < lastOp.ttl
           THEN lastOp.ret = prevOp.ret
           ELSE lastOp.ret = PyNone /\ lastOp.key \notin DOMAIN store

\* C4 witness: a get served the entry, and a later get, less than ttl after
\* that read but ttl after the set, found the entry expired.
C4_Witness ==
    /\ lastOp.op = "get"
    /\ prevOp.op = "get"
    /\ prevOp.key = lastOp.key
    /\ Fresh(prevOp)
    /\ prevOp.ret # PyNone
    /\ lastOp.at - prevOp.at < lastOp.ttl
    /\ lastOp.at - prevOp.before[prevOp.key].timestamp >= lastOp.ttl
    /\ lastOp.ret = PyNone

\* C26: cleanup_expired(ttl) removes exactly the entries whose age at the
\* call is >= ttl and leaves the entries with age < ttl as they were, value
\* and timestamp; an entry is removed if and only if get(key, ttl) at the
\* same instant would find it expired: get evicts it, and returns None
\* where the entry holds a value.
C26_CleanupRemovesWhatGetExpires ==
    lastOp.op = "cleanup_expired" =>
        LET b == lastOp.before
            age(k) == lastOp.at - b[k].timestamp
        IN  /\ DOMAIN store = {k \in DOMAIN b : age(k) < lastOp.ttl}
            /\ \A k \in DOMAIN store : store[k] = b[k]
            /\ \A k \in DOMAIN b :
                   LET g == TTLCache_get(b, k, lastOp.ttl, lastOp.at)
                   IN  /\ k \notin DOMAIN store <=> k \notin DOMAIN g.store
                       /\ b[k].value # PyNone =>
                              (k \notin DOMAIN store <=> g.ret = PyNone)

\* C26 witness: a cleanup_expired found one entry aged exactly ttl and one
\* younger entry, removed the first and kept the second.
C26_Witness ==
    /\ lastOp.op = "cleanup_expired"
    /\ lastOp.ttl > 0
    /\ \E k1, k2 \in DOMAIN lastOp.before :
           /\ lastOp.at - lastOp.before[k1].timestamp = lastOp.ttl
           /\ lastOp.at - lastOp.before[k2].timestamp < lastOp.ttl
           /\ lastOp.before[k1].value # PyNone
           /\ k1 \notin DOMAIN store
           /\ k2 \in DOMAIN store

\* C25: clear(k) with a non-empty key k removes exactly k from that cache
\* and leaves its other entries, value and timestamp, as they were; clear()
\* with no key empties that cache; neither changes any other named cache;
\* clear_all_caches empties all nine named caches, so that get finds
\* nothing under any key of any cache afterwards.
C25_ClearTouchesOnlyItsTarget ==
    LET b == mgr.before
        c == Caches
    IN  /\ mgr.op = "clear" =>
               /\ \A name \in DOMAIN c \ {mgr.name} : c[name] = b[name]
               /\ mgr.key \notin {None, ""} =>
                      /\ DOMAIN c[mgr.name] = DOMAIN b[mgr.name] \ {mgr.key}
                      /\ \A k \in DOMAIN c[mgr.name] :
                             c[mgr.name][k] = b[mgr.name][k]
               /\ mgr.key = None => DOMAIN c[mgr.name] = {}
        /\ mgr.op = "clear_all_caches" =>
               \A name \in DOMAIN c :
                   /\ DOMAIN c[name] = {}
                   /\ \A key \in ManagerKeys(name), ttl \in 0..MaxTtl :
                          TTLCache_get(c[name], key, ttl, now).ret = PyNone

\* C25 witness: clear_all_caches was called when each of the nine caches
\* held an entry, the menu cache two.
C25_Witness ==
    /\ mgr.op = "clear_all_caches"
    /\ \A name \in DOMAIN mgr.before : DOMAIN mgr.before[name] # {}
    /\ DOMAIN mgr.before["menu_cache"] = Keys

(***************************************************************************)
(* Properties: MenuService._fetch_menu_from_db                             *)
(***************************************************************************)
\* The rows of the requested slot, keyed by the requested date and meal.
ActiveOverride ==
    Select(temporary_menu, WeekType(fetch.date), DayName(fetch.date), fetch.meal)
ActiveDefault ==
    Select(menu, WeekType(fetch.date), DayName(fetch.date), fetch.meal)

\* The call ran all its store calls and returned from the try block.
Resolved == fetch.called /\ fetch.meal # None /\ ~fetch.raised

\* C5: for the requested (active) meal the override (temporary_menu) is
\* queried first and the default menu only after it; the active meal's items
\* are the override's whenever the override is non-empty, and the default
\* entry's when the override is empty or absent.
C5_OverrideBeforeDefault ==
    Resolved =>
        /\ fetch.ret.menus[fetch.meal] =
               IF ActiveOverride # {} THEN ActiveOverride ELSE ActiveDefault
        /\ fetch.steps[1].kind = "query"
        /\ fetch.steps[1].table = "temporary_menu"
        /\ fetch.steps[1].meal = fetch.meal
        /\ \A j \in 1..Len(fetch.steps) :
               ( /\ fetch.steps[j].kind = "query"
                 /\ fetch.steps[j].table = "menu"
                 /\ fetch.steps[j].meal = fetch.meal ) =>
                   /\ j = 2
                   /\ ActiveOverride = {}

\* C5 witness: the slot has an override and a different, non-empty default
\* entry, and the call returned the override.
C5_Witness ==
    /\ Resolved
    /\ ActiveOverride # {}
    /\ ActiveDefault # {}
    /\ ActiveOverride # ActiveDefault
    /\ fetch.ret.menus[fetch.meal] = ActiveOverride

\* C6: every lookahead (non-active) meal of the pass gets the default menu
\* entry of its own key (week parity and weekday of its date, its meal),
\* also when an override exists for that key.
C6_LookaheadIsDefaultOfItsKey ==
    Resolved =>
        \A i \in 1..Len(fetch.pairs) :
            LET m == fetch.pairs[i][1]
                d == fetch.pairs[i][2]
            IN  m # fetch.meal =>
                    fetch.ret.menus[m] = Select(menu, WeekType(d), DayName(d), m)

\* The pairs the claim C7 lists for active meal a on date d.
ExpectedPairs(a, d) ==
    IF a = "Dinner" THEN <<(<<"Dinner", d>>), (<<"Breakfast", d + 1>>)>>
    ELSE IF a = "Snacks" THEN <<(<<"Snacks", d>>), (<<"Dinner", d>>)>>
    ELSE IF a = "Lunch" THEN <<(<<"Lunch", d>>), (<<"Snacks", d>>), (<<"Dinner", d>>)>>
    ELSE <<(<<"Breakfast", d>>), (<<"Lunch", d>>), (<<"Snacks", d>>), (<<"Dinner", d>>)>>

\* C7: the pairs resolved in one pass are, for active meal Dinner on date
\* d, (Dinner, d) then (Breakfast, d + 1); for any other active meal, the
\* meals from it to Dinner in the order Breakfast, Lunch, Snacks, Dinner, all
\* on d.  The active meal is the first pair.
C7_PairsOfOnePass ==
    (fetch.called /\ fetch.meal # None) =>
        /\ fetch.pairs = ExpectedPairs(fetch.meal, fetch.date)
        /\ fetch.pairs[1] = <<fetch.meal, fetch.date>>
        /\ ~fetch.raised =>
               DOMAIN fetch.ret.menus =
                   {fetch.pairs[i][1] : i \in 1..Len(fetch.pairs)}

\* C7 witness: a Dinner pass returned the menus of Dinner and of tomorrow's
\* Breakfast.
C7_Witness ==
    /\ Resolved
    /\ fetch.meal = "Dinner"
    /\ fetch.pairs = <<(<<"Dinner", fetch.date>>), (<<"Breakfast", fetch.date + 1>>)>>
    /\ DOMAIN fetch.ret.menus = {"Dinner", "Breakfast"}

\* C8: every menu lookup of a pass, tomorrow's Breakfast included, is keyed
\* by the week parity and weekday of that pair's own date, and its meal.
C8_LookupKeyOfPairDate ==
    fetch.called =>
        \A j \in 1..Len(fetch.steps) :
            ( /\ fetch.steps[j].kind = "query"
              /\ fetch.steps[j].table \in {"temporary_menu", "menu"} ) =>
                /\ fetch.steps[j].week_type = WeekType(fetch.steps[j].date)
                /\ fetch.steps[j].day = DayName(fetch.steps[j].date)

\* C9 as stated: when the store fails during a pass, the meals resolved
\* before the failure are in the returned map.
C9_PartialResultKept ==
    (fetch.called /\ fetch.raised) =>
        \A m \in DOMAIN fetch.resolved :
            /\ m \in DOMAIN fetch.ret.menus
            /\ fetch.ret.menus[m] = fetch.resolved[m]

\* C9 amended: when the store fails at any call of a pass, the pass returns
\* (None, {}, None); the meals resolved before the failure are discarded.
C9_FailureDiscardsThePass ==
    (fetch.called /\ fetch.raised) =>
        /\ fetch.ret = EmptyResult
        /\ DOMAIN fetch.ret.menus = {}

\* C9 witness: the store failed after a meal had been resolved, and the
\* result is empty.
C9_Witness ==
    /\ fetch.called
    /\ fetch.raised
    /\ DOMAIN fetch.resolved # {}
    /\ fetch.ret = EmptyResult

(***************************************************************************)
(* Properties: MenuService read paths                                      *)
(***************************************************************************)
\* C10: when the backing store fails at any call of get_menu,
\* get_non_veg_menu or get_amount_data, the call returns its empty result
\* ((None, {}, None), [], None respectively) and does not raise to the
\* caller.
C10_StoreFailureGivesEmptyResult ==
    /\ ~svc.raised
    /\ svc.failed =>
           /\ svc.op = "get_menu" => svc.ret = EmptyResult
           /\ svc.op = "get_non_veg_menu" => svc.ret = NoRows
           /\ svc.op = "get_amount_data" => svc.ret = PyNone

\* C10 witness: the store failed under get_non_veg_menu for a slot that has
\* non-veg rows, and the call returned [].
C10_Witness ==
    /\ svc.op = "get_non_veg_menu"
    /\ svc.failed
    /\ ~svc.raised
    /\ svc.ret = NoRows
    /\ NonVegRows(today, get_current_meal(<<>>, minuteOfDay), "mess1") # {}
    /\ \E k \in DOMAIN non_veg_cache : non_veg_cache[k].value = NoRows

\* C18: the items menu resolution returns for the requested meal come from
\* an override only when that override was created on the requested date:
\* an override created on another date, also the date 14 days earlier with
\* the same (week parity, weekday, meal) key, is never returned.
C18_OverrideOnlyOnItsDate ==
    Resolved =>
        \A x \in fetch.ret.menus[fetch.meal] :
            x \in Items =>
                \E r \in temporary_menu :
                    /\ r.food_item = x
                    /\ r.week_type = WeekType(fetch.date)
                    /\ r.day = DayName(fetch.date)
                    /\ r.meal = fetch.meal
                    /\ r.created_at = fetch.date

(***************************************************************************)
(* Properties: request threads                                             *)
(***************************************************************************)
\* The thread is inside the with block of a TTLCache method.
Inside(t) ==
    thread[t].pc \in {"get_read", "get_check", "set_store", "clear_store",
                      "cleanup_scan", "release"}

\* C13: a get_notifications call returns every notification whose
\* send_notification (commit, then clear_notifications_cache) had returned
\* before the call started, whatever other threads were doing meanwhile.
C13_ReadAfterInvalidationIsFresh ==
    \A t \in Threads :
        (thread[t].req = "get_notifications" /\ thread[t].pc = "done") =>
            thread[t].must \subseteq thread[t].data.rows

\* C14: a thread of get_menu never holds the cache's lock when it is about
\* to query the store; and when two threads both missed on the same key and
\* both fetched from the unchanged store, both return the same value and
\* the cache holds that value as the one, valid entry of the key.
C14_MissesFetchOutsideTheLock ==
    /\ \A t \in Threads : thread[t].pc = "fetch" => lock.owner # t
    /\ \A t, u \in Threads :
           (/\ t # u
            /\ thread[t].req = "get_menu" /\ thread[u].req = "get_menu"
            /\ thread[t].pc = "done" /\ thread[u].pc = "done"
            /\ thread[t].key = thread[u].key
            /\ ~thread[t].hit /\ ~thread[u].hit
            /\ ~thread[t].raised /\ ~thread[u].raised) =>
               /\ thread[t].data = thread[u].data
               /\ DOMAIN store = {thread[t].key}
               /\ store[thread[t].key].value = thread[t].data
               /\ now - store[thread[t].key].timestamp < MENU_TTL

\* C14 witness: both threads have missed, fetched and set, while the clock
\* moved between the two sets.
C14_Witness ==
    /\ \A t \in Threads :
           /\ thread[t].req = "get_menu"
           /\ thread[t].pc = "done"
           /\ ~thread[t].hit
           /\ ~thread[t].raised
           /\ thread[t].data.meal = "Snacks"
    /\ "menu_Snacks_today" \in DOMAIN store
    /\ store["menu_Snacks_today"].timestamp > 0

\* C16: at most one thread is inside a TTLCache method of the instance, and
\* it holds the lock; the pair a get has read is, until the get is over,
\* what the store holds under the key (or the default when it holds
\* nothing); and every entry of the store is a whole (value, timestamp)
\* pair of one set.
C16_MethodsMutuallyExclusive ==
    /\ \A t, u \in Threads : (Inside(t) /\ Inside(u)) => t = u
    /\ \A t \in Threads : Inside(t) => lock.owner = t
    /\ \A t \in Threads :
           thread[t].pc = "get_check" =>
               thread[t].pair = IF thread[t].key \in DOMAIN store
                                THEN store[thread[t].key] ELSE NoPair
    /\ \A k \in DOMAIN store :
           /\ store[k].value \in Values \ {PyNone}
           /\ store[k].timestamp \in 0..now

\* C16 witness: one thread is inside get with the entry it has read, the
\* other waits at the lock to set the same key.
C16_Witness ==
    \E t, u \in Threads :
        /\ thread[t].pc = "get_check"
        /\ thread[t].pair # NoPair
        /\ thread[u].pc = "acquire"
        /\ thread[u].method = "set"
        /\ thread[u].key = thread[t].key
        /\ lock.owner = t

\* C17: a thread that reads, iterates or writes the store holds the
\* instance's lock; while clear_feedback_cache(mess_name) iterates the keys
\* of the store, no other thread is inside set or clear.
C17_StoreTouchedOnlyUnderLock ==
    /\ \A t \in Threads :
           (Inside(t) \/ thread[t].pc = "iter") => lock.owner = t
    /\ \A t, u \in Threads :
           (thread[t].pc = "iter" /\ u # t) =>
               thread[u].pc \notin {"set_store", "clear_store"}

(***************************************************************************)
(* Properties: time derivations and the store                              *)
(***************************************************************************)
\* C24: a time derivation (get_current_meal with or without an hour,
\* is_odd_week, seconds_until_next_meal) returns a value without raising
\* and leaves the tables of the store as they are.
C24_TimeDerivationsArePure ==
    [][(timeCall' # timeCall /\ timeCall'.op # "none") =>
          /\ timeCall'.ret # "UnboundLocalError"
          /\ UNCHANGED <<temporary_menu, non_veg_menu, menu>>]_vars

(***************************************************************************)
(* Properties: cleanup_old_menu                                            *)
(***************************************************************************)
\* C28: a cleanup_old_menu run on day D+1 that is not cut short by a store
\* failure deletes every override record created on day D or earlier and
\* every non-veg menu record dated before D+1, leaves the records created
\* or dated on day D+1 as they are, and adds none.
C28_CleanupDeletesEarlierDaysOnly ==
    Len(cleanup_log) > 0 =>
        LET run == cleanup_log[1]
        IN  /\ run.after.temporary_menu \subseteq run.before.temporary_menu
            /\ run.after.non_veg_menu \subseteq run.before.non_veg_menu
            /\ \A r \in run.before.temporary_menu :
                   /\ r.created_at >= run.date =>
                          r \in run.after.temporary_menu
                   /\ r.created_at <= run.date - 1 =>
                          r \notin run.after.temporary_menu
            /\ \A r \in run.before.non_veg_menu :
                   /\ r.menu_date >= run.date => r \in run.after.non_veg_menu
                   /\ r.menu_date < run.date =>
                          r \notin run.after.non_veg_menu

\* C28 witness: a run on the second day found an override and a non-veg
\* record of the first day and an override and a non-veg record of the
\* second day, deleted the former and kept the latter.
C28_Witness ==
    /\ Len(cleanup_log) > 0
    /\ cleanup_log[1].date = FirstDay + 1
    /\ \E old, new \in cleanup_log[1].before.temporary_menu :
           /\ old.created_at = FirstDay
           /\ new.created_at = FirstDay + 1
           /\ old \notin temporary_menu
           /\ new \in temporary_menu
    /\ \E old, new \in cleanup_log[1].before.non_veg_menu :
           /\ old.menu_date = FirstDay
           /\ new.menu_date = FirstDay + 1
           /\ old \notin non_veg_menu
           /\ new \in non_veg_menu

\* C29: a run of cleanup_old_menu that finds, on the same calendar day, the
\* store exactly as the run before it left it leaves it exactly so.
C29_CleanupIsIdempotent ==
    (/\ Len(cleanup_log) = 2
     /\ cleanup_log[1].date = cleanup_log[2].date
     /\ cleanup_log[1].before = cleanup_log[2].after) =>
        cleanup_log[1].after = cleanup_log[2].after

\* C29 witness: a run deleted records and kept others, and a second run of
\* the same day found the store as the first had left it.
C29_Witness ==
    /\ Len(cleanup_log) = 2
    /\ cleanup_log[1].date = cleanup_log[2].date
    /\ cleanup_log[2].before.temporary_menu # cleanup_log[2].after.temporary_menu
    /\ cleanup_log[2].after.temporary_menu # {}
    /\ cleanup_log[1].before = cleanup_log[2].after
    /\ temporary_menu = cleanup_log[2].after.temporary_menu
    /\ non_veg_menu = cleanup_log[2].after.non_veg_menu

AlertsOf(cache, mess_name) ==
    IF mess_name \in DOMAIN cache THEN <<cache[mess_name]>> ELSE <<>>

\* C30: what a reader finds in high_low_alerts_cache for a mess changes only
\* in the one step that replaces the previous list by the new complete
\* one: the list of the alerts of both queries of the recomputation for
\* that mess, in their order; at every other instant of the job the
\* previous list is found.
C30_ReadersSeeOldOrNewList ==
    [][\A mess_name \in Messes :
          AlertsOf(high_low_alerts_cache', mess_name)
              # AlertsOf(high_low_alerts_cache, mess_name) =>
                  /\ alertJob.pc = "assign"
                  /\ mess_list[alertJob.i] = mess_name
                  /\ high_low_alerts_cache'[mess_name]
                         = alertJob.high \o alertJob.low]_vars

\* C30 witness: the job holds a list with the waste alert of mess1 and has
\* not run the feedback query yet, while the cache holds the complete list
\* of the previous run for mess1, another one.
C30_Witness ==
    /\ alertJob.pc = "feedback"
    /\ mess_list[alertJob.i] = "mess1"
    /\ Len(alertJob.alerts) = 1
    /\ "mess1" \in DOMAIN high_low_alerts_cache
    /\ Len(high_low_alerts_cache["mess1"]) = 1
    /\ high_low_alerts_cache["mess1"] # alertJob.alerts
    /\ FeedbackAlerts("mess1", today) # <<>>

\* C31: when a recomputation for a mess assigns its list, and the tables
\* and the date are what the recomputation that made the list in the cache
\* read, and were so while this one ran, the list in the cache after the
\* assignment is the list that was there: replaced by an equal one, with
\* no alert added or repeated.
C31_SecondRunYieldsTheSameSnapshot ==
    [][\A mess_name \in Messes :
          (/\ alertJob.pc = "assign"
           /\ mess_list[alertJob.i] = mess_name
           /\ alertJob'.outcome = Append(alertJob.outcome, "done")
           /\ mess_name \in DOMAIN high_low_alerts_cache
           /\ mess_name \in DOMAIN alertJob.basis
           /\ alertJob.basis[mess_name] = AlertData
           /\ alertJob.seen = <<AlertData>>) =>
              high_low_alerts_cache'[mess_name]
                  = high_low_alerts_cache[mess_name]]_vars

\* C31 witness: a second recomputation for mess1 over unchanged tables has
\* built its list of two alerts, the waste alert and the feedback alert,
\* and is about to replace the equal list of the run before.
C31_Witness ==
    /\ alertJob.pc = "assign"
    /\ mess_list[alertJob.i] = "mess1"
    /\ "mess1" \in DOMAIN alertJob.basis
    /\ alertJob.basis["mess1"] = AlertData
    /\ alertJob.seen = <<AlertData>>
    /\ Len(alertJob.alerts) = 2
    /\ high_low_alerts_cache["mess1"] = alertJob.alerts

\* C39: the step in which the recomputation for a mess fails leaves the
\* lists in high_low_alerts_cache as they are, and the loop goes on to
\* the next mess; the job returns only when the recomputation of every
\* mess of mess_list has been run.
C39_FailedMessKeepsItsSnapshot ==
    [][/\ alertJob'.outcome = Append(alertJob.outcome, "failed") =>
              /\ high_low_alerts_cache' = high_low_alerts_cache
              /\ alertJob.i < Len(mess_list) =>
                     /\ alertJob'.pc = "open"
                     /\ alertJob'.i = alertJob.i + 1
       /\ alertJob'.pc = "return" =>
              Len(alertJob'.outcome) = Len(mess_list)]_vars

\* C39 witness: in one run the recomputation for mess1 failed and the one
\* for mess2 assigned its list; mess1 still has the list of an earlier
\* run, which is not the list the tables would give now.
C39_Witness ==
    /\ alertJob.pc = "return"
    /\ alertJob.outcome = <<"failed", "done">>
    /\ "mess1" \in DOMAIN high_low_alerts_cache
    /\ high_low_alerts_cache["mess1"] # <<>>
    /\ high_low_alerts_cache["mess1"]
           # WasteAlerts("mess1", today) \o FeedbackAlerts("mess1", today)
    /\ "mess2" \in DOMAIN high_low_alerts_cache
    /\ high_low_alerts_cache["mess2"]
           = WasteAlerts("mess2", today) \o FeedbackAlerts("mess2", today)
    /\ high_low_alerts_cache["mess2"] # <<>>

\* C32: a run of a notification job is submitted only at the trigger time
\* of its meal, 10:55 for breakfast, 15:55 for lunch, 18:25 for snacks and
\* 23:55 for dinner, each job has one trigger, and get_current_meal at that
\* minute gives the meal that ends five minutes later.
C32_TriggersFiveMinutesBeforeMealEnd ==
    [][/\ \A job \in NotifyJobs :
              jobs'.instances[job] > jobs.instances[job] =>
                  <<job, minuteOfDay, get_current_meal(<<>>, minuteOfDay)>>
                      \in {<<"notify_breakfast", 10 * 60 + 55, "Breakfast">>,
                           <<"notify_lunch", 15 * 60 + 55, "Lunch">>,
                           <<"notify_snacks", 18 * 60 + 25, "Snacks">>,
                           <<"notify_dinner", 23 * 60 + 55, "Dinner">>}
       /\ \A job \in NotifyJobs :
              Cardinality({i \in DOMAIN NotifyTriggers :
                              NotifyTriggers[i].id = job}) = 1]_vars

\* C32 witness: at 23:55 the run of the dinner job has been submitted,
\* after the three other jobs ran and ended earlier in the day.
C32_Witness ==
    /\ minuteOfDay = 23 * 60 + 55
    /\ today = FirstDay
    /\ jobs.instances["notify_dinner"] = 1
    /\ \A job \in NotifyJobs \ {"notify_dinner"} : jobs.instances[job] = 0
    /\ get_current_meal(<<>>, minuteOfDay) = "Dinner"

(***************************************************************************)
(* Properties: send_admin_notification_job                                 *)
(***************************************************************************)
\* C33: when send_admin_notification_job has run with a non-empty digest
\* and no failure, every message of the digest is a notification of the
\* admin and the admin's cache entry has been cleared; a get_notifications
\* ('admin') that starts after the job returned includes the messages of
\* the digest; with an empty digest the job writes no notification and
\* leaves the cache as it is.
C33_DigestPersistedThenInvalidated ==
    [][\A t \in Threads :
          /\ (/\ thread[t].req = "send_admin_notification_job"
              /\ thread[t].pc = "done"
              /\ ~thread[t].raised
              /\ thread[t].data.rows # {}) =>
                 /\ thread[t].method = "clear"
                 /\ \A m \in thread[t].data.rows :
                        \E r \in notifications :
                            r.message = m /\ r.recipient_type = "admin"
          /\ (/\ thread[t].req = "get_notifications"
              /\ thread[t].pc = "done") =>
                 (thread[t].must \cap Digests) \subseteq thread[t].data.rows
          /\ (/\ thread'[t] # thread[t]
              /\ thread'[t].req = "send_admin_notification_job"
              /\ thread'[t].data.rows = {}) =>
                 /\ notifications' = notifications
                 /\ store' = store]_vars

\* The summarizer failed, or its summary was empty.
NoSummary(llm) ==
    llm.kind \in {"unconfigured", "raises"} \/ Strip(llm.content) = <<>>

\* C34 as stated: when the summarizer fails or returns an empty summary for
\* a mess with critical feedback, the digest has the section of that mess
\* and its body is the whole feedback text.
C34_FallbackIsTheRawText ==
    digest.op = "create_admin_notification_from_critical_feedback" =>
        \A mess_key \in Messes :
            (/\ digest.combined_texts[mess_key] # <<>>
             /\ NoSummary(digest.llm[mess_key])) =>
                \E i \in 1..Len(digest.ret) :
                    digest.ret[i] =
                        Section(mess_key,
                                Rendered(digest.combined_texts[mess_key],
                                         digest.markdown_ok))

\* C34 amended: when the summarizer fails or returns an empty summary for a
\* mess with critical feedback, the digest has the section of that mess and
\* its body is made of the first 400 characters of the feedback text.
C34_FallbackIsTheTextCutAt400 ==
    digest.op = "create_admin_notification_from_critical_feedback" =>
        \A mess_key \in Messes :
            (/\ digest.combined_texts[mess_key] # <<>>
             /\ NoSummary(digest.llm[mess_key])) =>
                \E i \in 1..Len(digest.ret) :
                    digest.ret[i] =
                        Section(mess_key,
                                Rendered(Truncated(
                                             digest.combined_texts[mess_key],
                                             FALLBACK_CHARS),
                                         digest.markdown_ok))

\* C34 witness: call_llm raised for mess1, whose feedback has 401
\* characters, and returned blanks for mess2; the digest has both sections,
\* the first with 400 characters of text inside its paragraph.
C34_Witness ==
    /\ digest.op = "create_admin_notification_from_critical_feedback"
    /\ digest.llm["mess1"].kind = "raises"
    /\ Len(digest.combined_texts["mess1"]) = FALLBACK_CHARS + 1
    /\ digest.llm["mess2"] = [kind |-> "returns", content |-> <<" ", "\n">>]
    /\ digest.combined_texts["mess2"] = <<"a", "\n", "b">>
    /\ digest.markdown_ok
    /\ Len(digest.ret) = 2
    /\ Len(digest.ret[1]) = 4 + 1 + FALLBACK_CHARS + 1
    /\ digest.ret[2] = <<"<h3>", "Shakti", "</h3>", "\n",
                         "<p>", "a", "<br />", "\n", "b", "</p>">>

FreshMenuEntry(cache_key) ==
    /\ cache_key \in DOMAIN menu_cache
    /\ ClockSeconds - menu_cache[cache_key].timestamp < MENU_TTL

\* C36: a get_menu call whose store fetch fails writes the empty result
\* (None, {}, None) to the menu cache under its key and returns it; a call
\* that finds the empty result under its key, younger than MENU_TTL,
\* returns it from the cache and leaves the cache as it is, whatever the
\* store would give now; a call that finds no entry younger than MENU_TTL,
\* also after clear_menu_cache, fetches from the store.
C36_FailedFetchIsCachedForTheTtl ==
    [][(svc.op = "none" /\ svc'.op = "get_menu") =>
          LET cache_key == "menu_" \o get_current_meal(<<>>, minuteOfDay)
                           \o "_today"
          IN  /\ (svc'.failed /\ ~svc'.hit) =>
                     /\ svc'.ret = EmptyResult
                     /\ cache_key \in DOMAIN menu_cache'
                     /\ menu_cache'[cache_key].value = EmptyResult
                     /\ menu_cache'[cache_key].timestamp = ClockSeconds
              /\ (/\ FreshMenuEntry(cache_key)
                  /\ menu_cache[cache_key].value = EmptyResult) =>
                     /\ svc'.hit
                     /\ ~svc'.failed
                     /\ svc'.ret = EmptyResult
                     /\ menu_cache' = menu_cache
              /\ ~FreshMenuEntry(cache_key) => ~svc'.hit]_vars

\* C36 witness: half an hour after a failed fetch at 16:00 a get_menu call
\* has returned the cached empty result, while the store holds the menu of
\* the meal and a fetch would return it.
C36_Witness ==
    /\ svc.op = "get_menu"
    /\ svc.hit
    /\ svc.ret = EmptyResult
    /\ minuteOfDay = 16 * 60 + 30
    /\ menu_cache["menu_Snacks_today"].timestamp
           = ClockSeconds - 30 * 60
    /\ \A top \in TopRatedChoices(<<>>, None) :
           fetch_menu_from_db(<<>>, "Snacks", 0, top).ret # EmptyResult

\* The calendar date at which a cache entry was written.
DateOfEntry(entry) == entry.timestamp \div (MinutesPerDay * 60)

\* C37: a get_menu call with the date omitted that is answered from the
\* cache returns an entry written, and so fetched, on the current calendar
\* date, whichever meal argument the call had.
C37_CachedTodayMenuIsOfToday ==
    [][(svc.op = "none" /\ svc'.op = "get_menu" /\ svc'.hit) =>
          \A meal \in MealArgs :
              LET current_meal == IF meal # None THEN meal
                                  ELSE get_current_meal(<<>>, minuteOfDay)
                  cache_key == "menu_" \o current_meal \o "_today"
              IN  (/\ FreshMenuEntry(cache_key)
                   /\ svc'.ret = menu_cache[cache_key].value) =>
                      DateOfEntry(menu_cache[cache_key]) = today]_vars

(***************************************************************************)
(* Properties: today's critical feedback                                   *)
(***************************************************************************)
\* The stripped comments of the mess's rows of the day and of the meal that
\* the classifier labels Critical, in the order of their insertion.
CriticalComments(mess, meal) ==
    LET rows == TodaysFeedback(today, mess, meal)
        critical == {i \in 1..Len(rows) :
                        /\ Strip(rows[i].comments) # <<>>
                        /\ classify_feedback(Strip(rows[i].comments))
                               = "Critical"}
        nth(k) == CHOOSE i \in critical :
                      Cardinality({j \in critical : j <= i}) = k
    IN  [k \in 1..Cardinality(critical) |-> Strip(rows[nth(k)].comments)]

\* C38: a get_today_critical_feedbacks call that logged no error returns,
\* for mess1 and for mess2 alike, the critical comments submitted today
\* for the running meal at that mess, whatever rows the other mess has.
C38_EachMessGetsItsCriticalComments ==
    (digest.op = "get_today_critical_feedbacks" /\ ~digest.ret.logged_error)
        => \A mess \in Messes :
               [k \in 1..Len(digest.ret[mess]) |->
                   digest.ret[mess][k].comments]
                   = CriticalComments(mess,
                                      get_current_meal(<<>>, minuteOfDay))

====
